---- MODULE Spec2Model ----
(***************************************************************************)
(* Conversational state machine of the Vietnamese business-registration    *)
(* chatbot.  The orchestrator is deployed in three ways:                   *)
(*   deployment = "legacy":   routers/chat.py, SessionManager, one         *)
(*                            ConversationalRAGChatbot per session;        *)
(*   deployment = "new":      routers_new/chat.py, ChatUseCase over a      *)
(*                            MemoryConversationRepository;                *)
(*   deployment = "use_case": ChatUseCase.process_message called with the  *)
(*                            FormCollectionState its caller holds.        *)
(* Text is modelled as a sequence of one-character strings, so that        *)
(* validation (regular expressions, strip, float parsing) is computed on   *)
(* the characters.  Vietnamese wording is written without diacritics.      *)
(*                                                                         *)
(* Five specifications share the variables:                                *)
(*   Spec            the turns of the sessions, in each deployment;        *)
(*   SpecCalls       single calls of the reranker, the legal handler, the  *)
(*                   intent classifier, the question list, the context,    *)
(*                   add_message and the date validation, on arguments     *)
(*                   drawn by InitCalls;                                   *)
(*   SpecSessions    the legacy API's turns and session endpoints;         *)
(*   SpecConcurrent  ChatUseCase.process_message calls that interleave at  *)
(*                   the await of the intent classification;               *)
(*   SpecExpiry      the legacy API's turns, the passing of time and the   *)
(*                   SessionManager's cleanup thread.                      *)
(* Time passes only in SpecExpiry; in the other specifications every       *)
(* reading of the clock gives the time of the start.                       *)
(***************************************************************************)
EXTENDS Integers, Sequences, FiniteSets, TLC

\* ------------------------------------------------------------- bounds
\* Classified (free-form) turns in a run with one session.
MaxClassified == 2
\* Form-collection turns in a run with one session.
MaxAnswers == 4
\* Classified turns in a run with two sessions.
IsoClassified == 2
\* Form-collection turns in a run with two sessions.
IsoAnswers == 2

\* ------------------------------------------------------------- values
None == "None"

SessionIds == {"s1", "s2"}

Digits == {"0", "1", "2", "3", "4", "5", "6", "7", "8", "9"}
\* str.strip() / \s: the whitespace characters used by the inputs.
Whitespace == {" ", "\t", "\n"}

\* ------------------------------------------------------------- text helpers
RECURSIVE LStrip(_)
LStrip(s) == IF s # <<>> /\ Head(s) \in Whitespace THEN LStrip(Tail(s)) ELSE s

RECURSIVE RStrip(_)
RStrip(s) ==
  IF s # <<>> /\ s[Len(s)] \in Whitespace THEN RStrip(SubSeq(s, 1, Len(s) - 1)) ELSE s

Strip(s) == RStrip(LStrip(s))

RECURSIVE Remove(_, _)
Remove(s, c) ==
  IF s = <<>> THEN <<>>
  ELSE IF Head(s) = c THEN Remove(Tail(s), c) ELSE <<Head(s)>> \o Remove(Tail(s), c)

\* t occurs in s as a contiguous run of elements
Contains(s, t) ==
  \E i \in 0..(Len(s) - Len(t)) : SubSeq(s, i + 1, i + Len(t)) = t

Take(s, n) == SubSeq(s, 1, IF Len(s) < n THEN Len(s) ELSE n)

\* s[-n:]
LastN(s, n) == IF Len(s) <= n THEN s ELSE SubSeq(s, Len(s) - n + 1, Len(s))

\* ------------------------------------------------------------- form catalog
F(name, display, type, required, description) ==
  [field_name |-> name, display_name |-> display, field_type |-> type,
   required |-> required, description |-> description]

template_files ==
  <<"danh_sach_chu_so_huu.docx", "danh_sach_co_dong.docx", "dieu_le_cong_ty.docx",
    "giay_de_nghi.docx", "giay_uy_quyen.docx">>

_extract_owner_fields ==
  << F("chu_so_huu_ho_ten", "Ho va ten chu so huu", "text", TRUE,
       "Ho va ten day du cua chu so huu cong ty"),
     F("chu_so_huu_cccd", "So CMND/CCCD", "text", TRUE,
       "So chung minh nhan dan hoac can cuoc cong dan"),
     F("chu_so_huu_ngay_sinh", "Ngay sinh", "date", TRUE,
       "Ngay sinh cua chu so huu (dd/mm/yyyy)"),
     F("chu_so_huu_dia_chi", "Dia chi thuong tru", "text", TRUE,
       "Dia chi thuong tru cua chu so huu"),
     F("chu_so_huu_dien_thoai", "So dien thoai", "text", FALSE,
       "So dien thoai lien he") >>

_extract_shareholder_fields ==
  << F("co_dong_ho_ten", "Ho va ten co dong", "text", TRUE,
       "Ho va ten day du cua co dong"),
     F("co_dong_cccd", "So CMND/CCCD", "text", TRUE,
       "So chung minh nhan dan hoac can cuoc cong dan"),
     F("co_dong_ty_le_von", "Ty le gop von (%)", "number", TRUE,
       "Ty le phan tram gop von cua co dong"),
     F("co_dong_gia_tri_von", "Gia tri von gop", "number", TRUE,
       "Gia tri von gop bang tien (VND)") >>

_extract_company_charter_fields ==
  << F("ten_cong_ty", "Ten cong ty", "text", TRUE, "Ten day du cua cong ty"),
     F("ten_cong_ty_tieng_anh", "Ten cong ty (tieng Anh)", "text", FALSE,
       "Ten cong ty bang tieng Anh (neu co)"),
     F("dia_chi_tru_so", "Dia chi tru so chinh", "text", TRUE,
       "Dia chi day du cua tru so chinh cong ty"),
     F("von_dieu_le", "Von dieu le", "number", TRUE, "Von dieu le cua cong ty (VND)"),
     F("nganh_nghe_kinh_doanh", "Nganh nghe kinh doanh", "text", TRUE,
       "Mo ta chi tiet cac nganh nghe kinh doanh") >>

_extract_application_fields ==
  << F("nguoi_dai_dien", "Nguoi dai dien phap luat", "text", TRUE,
       "Ho ten nguoi dai dien phap luat"),
     F("chuc_vu_dai_dien", "Chuc vu", "text", TRUE,
       "Chuc vu cua nguoi dai dien (Giam doc, Tong Giam doc, ...)"),
     F("ngay_lap_don", "Ngay lap don", "date", TRUE,
       "Ngay lap don dang ky (dd/mm/yyyy)") >>

_extract_authorization_fields ==
  << F("nguoi_uy_quyen", "Nguoi uy quyen", "text", TRUE, "Ho ten nguoi uy quyen"),
     F("nguoi_duoc_uy_quyen", "Nguoi duoc uy quyen", "text", TRUE,
       "Ho ten nguoi duoc uy quyen"),
     F("noi_dung_uy_quyen", "Noi dung uy quyen", "text", TRUE,
       "Mo ta cu the nhung viec duoc uy quyen") >>

_extract_form_fields(template_name) ==
  CASE template_name = "danh_sach_chu_so_huu.docx" -> _extract_owner_fields
    [] template_name = "danh_sach_co_dong.docx" -> _extract_shareholder_fields
    [] template_name = "dieu_le_cong_ty.docx" -> _extract_company_charter_fields
    [] template_name = "giay_de_nghi.docx" -> _extract_application_fields
    [] template_name = "giay_uy_quyen.docx" -> _extract_authorization_fields
    [] OTHER -> <<>>

\* str.lower() of the display names
lower ==
  [d \in {"Ho va ten chu so huu", "So CMND/CCCD", "Ngay sinh", "Dia chi thuong tru",
          "So dien thoai", "Ho va ten co dong", "Ty le gop von (%)", "Gia tri von gop",
          "Ten cong ty", "Ten cong ty (tieng Anh)", "Dia chi tru so chinh", "Von dieu le",
          "Nganh nghe kinh doanh", "Nguoi dai dien phap luat", "Chuc vu", "Ngay lap don",
          "Nguoi uy quyen", "Nguoi duoc uy quyen", "Noi dung uy quyen",
          "Gia tri von gop (VND)", "Von dieu le (VND)"} |->
     CASE d = "Ho va ten chu so huu" -> "ho va ten chu so huu"
       [] d = "So CMND/CCCD" -> "so cmnd/cccd"
       [] d = "Ngay sinh" -> "ngay sinh"
       [] d = "Dia chi thuong tru" -> "dia chi thuong tru"
       [] d = "So dien thoai" -> "so dien thoai"
       [] d = "Ho va ten co dong" -> "ho va ten co dong"
       [] d = "Ty le gop von (%)" -> "ty le gop von (%)"
       [] d = "Gia tri von gop" -> "gia tri von gop"
       [] d = "Ten cong ty" -> "ten cong ty"
       [] d = "Ten cong ty (tieng Anh)" -> "ten cong ty (tieng anh)"
       [] d = "Dia chi tru so chinh" -> "dia chi tru so chinh"
       [] d = "Von dieu le" -> "von dieu le"
       [] d = "Nganh nghe kinh doanh" -> "nganh nghe kinh doanh"
       [] d = "Nguoi dai dien phap luat" -> "nguoi dai dien phap luat"
       [] d = "Chuc vu" -> "chuc vu"
       [] d = "Ngay lap don" -> "ngay lap don"
       [] d = "Nguoi uy quyen" -> "nguoi uy quyen"
       [] d = "Nguoi duoc uy quyen" -> "nguoi duoc uy quyen"
       [] d = "Noi dung uy quyen" -> "noi dung uy quyen"
       [] d = "Gia tri von gop (VND)" -> "gia tri von gop (vnd)"
       [] d = "Von dieu le (VND)" -> "von dieu le (vnd)"]

\* TemplateParser._load_templates: the templates whose file exists, in the
\* order of template_files (dict insertion order).
RECURSIVE LoadFrom(_, _)
LoadFrom(files, dir) ==
  IF files = <<>> THEN <<>>
  ELSE (IF Head(files) \in dir THEN <<Head(files)>> ELSE <<>>) \o LoadFrom(Tail(files), dir)

_load_templates(dir) == LoadFrom(template_files, dir)

\* All fields of the loaded templates, template order then field order.
RECURSIVE AllFields(_)
AllFields(tpls) ==
  IF tpls = <<>> THEN <<>>
  ELSE _extract_form_fields(Head(tpls)) \o AllFields(Tail(tpls))

\* ------------------------------------------------------------- TemplateParser
\* The question asked for a field.  The dict built by
\* generate_form_collection_questions has exactly these five keys.
Question(f) ==
  [field_name |-> f.field_name,
   question |-> <<"Vui long nhap ", lower[f.display_name], ":">>,
   field_type |-> f.field_type,
   description |-> f.description,
   required |-> f.required]

RECURSIVE GenQuestions(_, _)
GenQuestions(fields, seen_fields) ==
  IF fields = <<>> THEN <<>>
  ELSE LET f == Head(fields) IN
       IF f.field_name \notin seen_fields /\ f.required
       THEN <<Question(f)>> \o GenQuestions(Tail(fields), seen_fields \cup {f.field_name})
       ELSE GenQuestions(Tail(fields), seen_fields)

generate_form_collection_questions(tpls) == GenQuestions(AllFields(tpls), {})

\* \d of a str pattern: the ASCII digits and the other Unicode decimal digits,
\* of which "U+0661" (ARABIC-INDIC DIGIT ONE) stands for one.
UnicodeDigits == {"U+0661"}
IsDigit(c) == c \in Digits \cup UnicodeDigits

DateShape(s) ==
  /\ Len(s) = 10
  /\ \A i \in {1, 2, 4, 5, 7, 8, 9, 10} : IsDigit(s[i])
  /\ s[3] = "/"
  /\ s[6] = "/"

\* re.match(r'^\d{2}/\d{2}/\d{4}$', value): $ also matches before a final newline
MatchDate(value) ==
  \/ DateShape(value)
  \/ /\ Len(value) = 11
     /\ value[11] = "\n"
     /\ DateShape(SubSeq(value, 1, 10))

\* digits, single underscores allowed between digits
DigitRun(s) ==
  /\ s # <<>>
  /\ s[1] \in Digits
  /\ s[Len(s)] \in Digits
  /\ \A i \in 1..Len(s) : s[i] \in Digits \cup {"_"}
  /\ \A i \in 1..(Len(s) - 1) : ~(s[i] = "_" /\ s[i + 1] = "_")

Unsign(s) == IF s # <<>> /\ Head(s) \in {"+", "-"} THEN Tail(s) ELSE s

FloatWord(s) ==
  /\ Len(s) \in {3, 8}
  /\ \/ /\ Len(s) = 3
        /\ s[1] \in {"i", "I"} /\ s[2] \in {"n", "N"} /\ s[3] \in {"f", "F"}
     \/ /\ Len(s) = 3
        /\ s[1] \in {"n", "N"} /\ s[2] \in {"a", "A"} /\ s[3] \in {"n", "N"}
     \/ /\ Len(s) = 8
        /\ s[1] \in {"i", "I"} /\ s[2] \in {"n", "N"} /\ s[3] \in {"f", "F"}
        /\ s[4] \in {"i", "I"} /\ s[5] \in {"n", "N"} /\ s[6] \in {"i", "I"}
        /\ s[7] \in {"t", "T"} /\ s[8] \in {"y", "Y"}

\* float(s) does not raise ValueError, for a string without "." (it was removed)
FloatLiteral(t) ==
  \/ DigitRun(t)
  \/ FloatWord(t)
  \/ \E k \in 2..(Len(t) - 1) :
        /\ t[k] \in {"e", "E"}
        /\ DigitRun(SubSeq(t, 1, k - 1))
        /\ DigitRun(Unsign(SubSeq(t, k + 1, Len(t))))

ParsesAsFloat(s) == FloatLiteral(Unsign(Strip(s)))

Valid == [is_valid |-> TRUE, error_message |-> ""]
Invalid(msg) == [is_valid |-> FALSE, error_message |-> msg]

ERR_DATE == "Dinh dang ngay khong dung. Vui long nhap theo format dd/mm/yyyy"
ERR_NUMBER == "Gia tri phai la so"
ERR_REQUIRED == "Truong nay la bat buoc"
ERR_EMAIL == "Dinh dang email khong dung"

\* <<f>> for the first element f of fields named field_name, <<>> if there is none
RECURSIVE FindField(_, _)
FindField(fields, field_name) ==
  IF fields = <<>> THEN <<>>
  ELSE IF Head(fields).field_name = field_name THEN <<Head(fields)>>
  ELSE FindField(Tail(fields), field_name)

\* a validate_field_value that accepts every value
validate_field_value_accepting(tpls, field_name, value) == Valid

\* TemplateParser.validate_field_value
validate_field_value(tpls, field_name, value) ==
  LET Check(found) ==
        IF found = <<>> THEN Valid
        ELSE CASE found[1].field_type = "date" ->
                    IF MatchDate(value) THEN Valid ELSE Invalid(ERR_DATE)
               [] found[1].field_type = "number" ->
                    IF ParsesAsFloat(Remove(Remove(value, ","), ".")) THEN Valid
                    ELSE Invalid(ERR_NUMBER)
               [] found[1].field_type = "text" ->
                    IF found[1].required /\ Strip(value) = <<>> THEN Invalid(ERR_REQUIRED)
                    ELSE Valid
               [] OTHER -> Valid
  IN Check(FindField(AllFields(tpls), field_name))


\* ------------------------------------------------------------- backends
\* What the external services do during one turn.  A backend call either
\* raises or returns: cls is the classification reply, search the candidates
\* of the vector search, rerank the cross-encoder's score per chunk id, gen
\* the text generation.
KW_legal == <<"l", "e", "g", "a", "l">>
KW_business == <<"b", "u", "s", "i", "n", "e", "s", "s">>
KW_general == <<"g", "e", "n", "e", "r", "a", "l">>

\* self.intents, in insertion order
intents == <<"legal", "business", "general">>
Keyword(i) ==
  CASE i = "legal" -> KW_legal
    [] i = "business" -> KW_business
    [] i = "general" -> KW_general

UpperLetters == <<"A", "B", "C", "D", "E", "F", "G", "H", "I", "J", "K", "L", "M",
           "N", "O", "P", "Q", "R", "S", "T", "U", "V", "W", "X", "Y", "Z">>
LowerLetters == <<"a", "b", "c", "d", "e", "f", "g", "h", "i", "j", "k", "l", "m",
           "n", "o", "p", "q", "r", "s", "t", "u", "v", "w", "x", "y", "z">>
LowerChar(c) ==
  IF \E i \in 1..26 : UpperLetters[i] = c THEN LowerLetters[CHOOSE i \in 1..26 : UpperLetters[i] = c] ELSE c
LowerCase(s) == [i \in 1..Len(s) |-> LowerChar(s[i])]

\* IntentClassifier.classify_intent: the intent for a backend outcome
classify_intent(cls) ==
  LET Validate(intent) ==
        IF \E k \in 1..3 : Keyword(intents[k]) = intent
        THEN intents[CHOOSE k \in 1..3 : Keyword(intents[k]) = intent]
        ELSE IF \E k \in 1..3 : Contains(intent, Keyword(intents[k]))
        THEN intents[CHOOSE k \in 1..3 :
                       /\ Contains(intent, Keyword(intents[k]))
                       /\ \A j \in 1..(k - 1) : ~Contains(intent, Keyword(intents[j]))]
        ELSE "general"
  IN IF cls.raised THEN "general" ELSE Validate(LowerCase(Strip(cls.text)))

\* IntentClassifier.classify_with_confidence: the intent with its description
\* (here the intent's name) and what it was asked; no confidence is in it
classify_with_confidence(cls, has_context) ==
  LET Described(intent) ==
        [intent |-> intent, description |-> intent, has_context |-> has_context]
  IN Described(classify_intent(cls))

\* ------------------------------------------------------------- retrieval
\* config['retrieval']: similarity is kept in hundredths
top_k == 10
rerank_top_k == 5
similarity_threshold == 70

Doc(id, score) ==
  [id |-> id, score |-> score, reranked |-> FALSE, rerank_score |-> 0,
   original_score |-> score]

\* sorted(documents, key=rerank_score, reverse=True): stable, descending
RECURSIVE InsertDesc(_, _)
InsertDesc(sorted, d) ==
  IF sorted = <<>> THEN <<d>>
  ELSE IF Head(sorted).rerank_score >= d.rerank_score
       THEN <<Head(sorted)>> \o InsertDesc(Tail(sorted), d)
       ELSE <<d>> \o sorted

RECURSIVE SortDesc(_)
SortDesc(docs) ==
  IF docs = <<>> THEN <<>>
  ELSE InsertDesc(SortDesc(SubSeq(docs, 1, Len(docs) - 1)), docs[Len(docs)])

RECURSIVE Filter(_, _)
Filter(docs, threshold) ==
  IF docs = <<>> THEN <<>>
  ELSE (IF Head(docs).score >= threshold THEN <<Head(docs)>> ELSE <<>>)
       \o Filter(Tail(docs), threshold)

\* a reranker that gives up its candidates when the cross-encoder fails
_rerank_documents_dropping(documents, rerank) ==
  IF Len(documents) <= 1 THEN documents
  ELSE IF rerank.raised THEN <<>>
  ELSE SortDesc([i \in 1..Len(documents) |->
                   [documents[i] EXCEPT !.reranked = TRUE,
                                        !.rerank_score = rerank.scores[documents[i].id],
                                        !.original_score = documents[i].score,
                                        !.score = rerank.scores[documents[i].id]]])

\* EnhancedRetriever._rerank_documents
_rerank_documents(documents, rerank) ==
  IF Len(documents) <= 1 THEN documents
  ELSE IF rerank.raised THEN documents
  ELSE SortDesc([i \in 1..Len(documents) |->
                   [documents[i] EXCEPT !.reranked = TRUE,
                                        !.rerank_score = rerank.scores[documents[i].id],
                                        !.original_score = documents[i].score,
                                        !.score = rerank.scores[documents[i].id]]])

\* WeaviateVectorStore.search: an exception is swallowed into no result
vector_store_search(search) == IF search.raised THEN <<>> ELSE Take(search.docs, top_k)

\* EnhancedRetriever.retrieve
retrieve(search, rerank) ==
  LET Rerank(filtered_docs) ==
        IF filtered_docs = <<>> THEN <<>>
        ELSE Take(_rerank_documents(filtered_docs, rerank), rerank_top_k)
      Retrieve(initial_docs) ==
        IF initial_docs = <<>> THEN <<>>
        ELSE Rerank(Filter(initial_docs, similarity_threshold))
  IN Retrieve(vector_store_search(search))

\* ------------------------------------------------------------- replies
GENERATED == "<text generated by the model>"
MSG_GENERATION_ERROR == "Xin loi, toi gap loi khi tao phan hoi. Vui long thu lai."
MSG_NOT_FOUND == "Xin loi, toi khong tim thay thong tin phap luat lien quan den cau hoi cua ban."
MSG_NOT_FOUND_HINT == "Ban co the dat cau hoi cu the hon ve luat, nghi dinh, thong tu khong?"
MSG_BUSINESS_INTRO == "Toi se giup ban tao bo ho so dang ky kinh doanh. Hay bat dau voi thong tin dau tien:"
MSG_SUMMARY_HEAD == "Da thu thap du thong tin! Duoi day la tom tat:"
MSG_SUMMARY_TAIL == "Bo ho so dang ky kinh doanh da duoc chuan bi voi thong tin tren."
MSG_EDIT_OR_ASK == "Ban co muon chinh sua thong tin nao khong? Hoac co cau hoi gi khac ve quy trinh dang ky?"
MSG_EDIT == "Ban co muon chinh sua thong tin nao khong?"
MSG_APOLOGY == "Xin loi, toi gap loi khi xu ly tin nhan cua ban. Vui long thu lai."
MSG_NO_TEMPLATE == "Xin loi, hien tai chua co template nao de tao ho so."
MSG_NO_FIELD == "Loi: Khong tim thay field hien tai."
MSG_NO_TEMPLATE_FOUND == "Loi: Khong tim thay template."

\* The reply of a turn.  A key the legacy dict leaves out reads as the default
\* the router takes for it (None, {}).
Reply(message, intent, sources, form_active, current_field, collected_data, metadata) ==
  [message |-> message, intent |-> intent, sources |-> sources,
   form_active |-> form_active, current_field |-> current_field,
   collected_data |-> collected_data, metadata |-> metadata]

\* a history entry
Entry(role, content, intent) == [role |-> role, content |-> content, intent |-> intent]

\* an assignment that is lost: the dict stays as it was
DictSet_lost(d, k, v) == d

\* dict[k] = v: a present key keeps its place, a new key is added at the end
DictSet(d, k, v) ==
  IF \E i \in 1..Len(d) : d[i].k = k
  THEN [i \in 1..Len(d) |-> IF d[i].k = k THEN [k |-> k, v |-> v] ELSE d[i]]
  ELSE Append(d, [k |-> k, v |-> v])

Keys(d) == {d[i].k : i \in 1..Len(d)}

\* EnhancedRetriever.retrieve_for_intent: the intent filter keeps every
\* chunk of the legal collection
retrieve_for_intent(search, rerank) == retrieve(search, rerank)

\* What a handler hands back: the object after its assignments, the reply
\* (<<r>>, or <<>> when it raised), the exception, and what it did.
Done(obj, reply, validation, completed, generated) ==
  [obj |-> obj, reply |-> <<reply>>, raised |-> None, validation |-> validation,
   completed |-> completed, generated |-> generated]
Raised(obj, exc, validation, completed, generated) ==
  [obj |-> obj, reply |-> <<>>, raised |-> exc, validation |-> validation,
   completed |-> completed, generated |-> generated]

\* ------------------------------------------------------------- chatbot.py
\* ConversationalRAGChatbot.__init__ and _initialize_system
NewChatbot(dir) ==
  [conversation_history |-> <<>>,
   current_intent |-> None,
   templates |-> _load_templates(dir),
   form_collection_state |->
     [active |-> FALSE, current_field_index |-> 0, collected_data |-> <<>>,
      questions |-> generate_form_collection_questions(_load_templates(dir))]]

\* mapping[key] of a dict: KeyError when the key is missing
HasKey(mapping, key) == key \in DOMAIN mapping

\* ConversationalRAGChatbot._get_conversation_context: the rendered entries
_get_conversation_context(bot) ==
  LET Render(recent_history) ==
        [i \in 1..Len(recent_history) |->
           [role |-> IF recent_history[i].role = "user" THEN "Nguoi dung" ELSE "Bot",
            content |-> recent_history[i].content]]
  IN IF Len(bot.conversation_history) <= 1 THEN <<>>
     ELSE Render(LastN(bot.conversation_history, 3 * 2))

Source(doc) == [chunk |-> doc.id, score |-> doc.score]

\* a legal handler without the short cut: it generates from whatever was
\* retrieved, nothing included
_handle_legal_question_generating(bot, env) ==
  LET Sources(top) == [i \in 1..Len(top) |-> Source(top[i])]
      Answer(retrieved_docs) ==
        Done(bot,
             Reply(<<IF env.gen.raised THEN MSG_GENERATION_ERROR ELSE GENERATED>>,
                   "legal", Sources(Take(retrieved_docs, 3)), FALSE, None, <<>>, {}),
             "none", FALSE, TRUE)
      Retrieved(retrieved_docs) == Answer(retrieved_docs) @@ [retrieved |-> retrieved_docs]
  IN Retrieved(retrieve_for_intent(env.search, env.rerank))

\* ConversationalRAGChatbot._handle_legal_question
_handle_legal_question(bot, env) ==
  LET Sources(top) == [i \in 1..Len(top) |-> Source(top[i])]
      Answer(retrieved_docs) ==
        IF retrieved_docs = <<>>
        THEN Done(bot, Reply(<<MSG_NOT_FOUND, MSG_NOT_FOUND_HINT>>, "legal", <<>>, FALSE,
                             None, <<>>, {}), "none", FALSE, FALSE)
        ELSE Done(bot,
                  Reply(<<IF env.gen.raised THEN MSG_GENERATION_ERROR ELSE GENERATED>>,
                        "legal", Sources(Take(retrieved_docs, 3)), FALSE, None, <<>>, {}),
                  "none", FALSE, TRUE)
      Retrieved(retrieved_docs) == Answer(retrieved_docs) @@ [retrieved |-> retrieved_docs]
  IN Retrieved(retrieve_for_intent(env.search, env.rerank))

\* the first question's prompt, as _handle_business_request writes it
FirstPrompt(questions) ==
  IF questions = <<>> THEN <<>>
  ELSE <<"\n\n">> \o questions[1].question
       \o (IF questions[1].description # ""
           THEN <<"\n[note] ", questions[1].description>> ELSE <<>>)

\* ConversationalRAGChatbot._handle_business_request
_handle_business_request(bot) ==
  LET questions == bot.form_collection_state.questions IN
  Done([bot EXCEPT !.form_collection_state.active = TRUE,
                   !.form_collection_state.current_field_index = 0,
                   !.form_collection_state.collected_data = <<>>],
       Reply(<<MSG_BUSINESS_INTRO>> \o FirstPrompt(questions), "business", <<>>, TRUE,
             IF questions # <<>> THEN questions[1].field_name ELSE None, <<>>, {}),
       "none", FALSE, FALSE)

\* ConversationalRAGChatbot._handle_general_question
_handle_general_question(bot, env) ==
  Done(bot,
       Reply(<<IF env.gen.raised THEN MSG_GENERATION_ERROR ELSE GENERATED>>, "general",
             <<>>, FALSE, None, <<>>, {}),
       "none", FALSE, TRUE)

\* the display name the summary shows for a collected field; <<>> when the
\* lookup of question["display_name"] raises KeyError
RECURSIVE SummaryName(_, _)
SummaryName(questions, field_name) ==
  IF questions = <<>> THEN <<field_name>>
  ELSE IF Head(questions).field_name = field_name
       THEN (IF HasKey(Head(questions), "display_name")
             THEN <<Head(questions).display_name>> ELSE <<>>)
       ELSE SummaryName(Tail(questions), field_name)

RECURSIVE SummaryLines(_, _)
SummaryLines(questions, collected_data) ==
  IF collected_data = <<>> THEN <<>>
  ELSE <<"* ">> \o SummaryName(questions, Head(collected_data).k) \o <<": ">>
       \o Head(collected_data).v \o <<"\n">>
       \o SummaryLines(questions, Tail(collected_data))

\* ConversationalRAGChatbot._complete_form_collection: the state is reset
\* before the summary is written
_complete_form_collection(bot, validation) ==
  LET collected_data == bot.form_collection_state.collected_data
      questions == bot.form_collection_state.questions
      Summary(reset) ==
        IF \E i \in 1..Len(collected_data) :
             SummaryName(questions, collected_data[i].k) = <<>>
        THEN Raised(reset, "KeyError", validation, FALSE, FALSE)
        ELSE Done(reset,
                  Reply(<<MSG_SUMMARY_HEAD>> \o SummaryLines(questions, collected_data)
                          \o <<MSG_SUMMARY_TAIL, MSG_EDIT_OR_ASK>>,
                        "business", <<>>, FALSE, None, collected_data, {}),
                  validation, TRUE, FALSE)
  IN Summary([bot EXCEPT !.form_collection_state.active = FALSE,
                         !.form_collection_state.current_field_index = 0,
                         !.form_collection_state.collected_data = <<>>])

\* ConversationalRAGChatbot._handle_form_collection
_handle_form_collection(bot, user_input) ==
  LET questions == bot.form_collection_state.questions
      current_index == bot.form_collection_state.current_field_index
      Store(current_question, v, saved) ==
        IF ~v.is_valid
        THEN (IF ~HasKey(current_question, "display_name")
              THEN Raised(bot, "KeyError", "failed", FALSE, FALSE)
              ELSE Done(bot,
                        Reply(<<"[x] ", v.error_message, "\n\nVui long nhap lai ",
                                lower[current_question.display_name], ":">>,
                              "business", <<>>, TRUE, current_question.field_name, <<>>,
                              {}),
                        "failed", FALSE, FALSE))
        ELSE IF current_index + 1 >= Len(questions)
        THEN _complete_form_collection(saved, "ok")
        ELSE IF ~HasKey(current_question, "display_name")
        THEN Raised(saved, "KeyError", "ok", FALSE, FALSE)
        ELSE Done(saved,
                  Reply(<<"[ok] Da luu: ", current_question.display_name,
                          "\n\nTiep theo: ">>
                          \o questions[current_index + 2].question
                          \o (IF questions[current_index + 2].description # ""
                              THEN <<"\n[note] ", questions[current_index + 2].description>>
                              ELSE <<>>),
                        "business", <<>>, TRUE, questions[current_index + 2].field_name,
                        <<>>, {}),
                  "ok", FALSE, FALSE)
      Ask(current_question) ==
        Store(current_question,
              validate_field_value(bot.templates, current_question.field_name, user_input),
              [bot EXCEPT
                 !.form_collection_state.collected_data =
                    DictSet(@, current_question.field_name, user_input),
                 !.form_collection_state.current_field_index = current_index + 1])
  IN IF current_index >= Len(questions) THEN _complete_form_collection(bot, "none")
     ELSE Ask(questions[current_index + 1])

\* the entry process_message appends for the reply of a handler
Answered(r, intent) ==
  IF r.raised # None THEN r @@ [handler |-> intent, classifier_called |-> TRUE]
  ELSE [r EXCEPT !.obj.conversation_history =
                   Append(@, Entry("assistant", r.reply[1].message, r.obj.current_intent))]
         @@ [handler |-> intent, classifier_called |-> TRUE]

\* ConversationalRAGChatbot.process_message.  The result adds which handler
\* ran and whether the intent classifier was called.
process_message(bot, user_input, env) ==
  LET Route(b, intent) ==
        Answered(CASE intent = "legal" -> _handle_legal_question(b, env)
                   [] intent = "business" -> _handle_business_request(b)
                   [] OTHER -> _handle_general_question(b, env),
                 intent)
      Classify(b, intent) == Route([b EXCEPT !.current_intent = intent], intent)
      Turn(b) ==
        IF b.form_collection_state.active
        THEN _handle_form_collection(b, user_input)
               @@ [handler |-> "form", classifier_called |-> FALSE]
        ELSE Classify(b, classify_intent(env.cls))
  IN Turn([bot EXCEPT !.conversation_history =
                        Append(@, Entry("user", user_input, None))])

\* ------------------------------------------------------------- form.py, memory_template_repository.py
\* template_configs: the fields of the new architecture's catalog
TemplateFields(template_name) ==
  LET Config(fields) ==
        [i \in 1..Len(fields) |->
           CASE fields[i].field_name = "chu_so_huu_dien_thoai" ->
                  [fields[i] EXCEPT !.field_type = "phone"]
             [] fields[i].field_name = "co_dong_gia_tri_von" ->
                  [fields[i] EXCEPT !.display_name = "Gia tri von gop (VND)"]
             [] fields[i].field_name = "von_dieu_le" ->
                  [fields[i] EXCEPT !.display_name = "Von dieu le (VND)"]
             [] OTHER -> fields[i]]
  IN Config(_extract_form_fields(template_name))

TemplateDisplayName(template_name) ==
  CASE template_name = "danh_sach_chu_so_huu.docx" -> "Danh sach chu so huu"
    [] template_name = "danh_sach_co_dong.docx" -> "Danh sach co dong"
    [] template_name = "dieu_le_cong_ty.docx" -> "Dieu le cong ty"
    [] template_name = "giay_de_nghi.docx" -> "Giay de nghi dang ky doanh nghiep"
    [] template_name = "giay_uy_quyen.docx" -> "Giay uy quyen"

\* MemoryTemplateRepository.list_templates: the names, in load order
list_templates(dir) == LoadFrom(template_files, dir)

RECURSIVE Required(_)
Required(fields) ==
  IF fields = <<>> THEN <<>>
  ELSE (IF Head(fields).required THEN <<Head(fields)>> ELSE <<>>) \o Required(Tail(fields))

\* FormTemplate.get_required_fields
get_required_fields(template_name) == Required(TemplateFields(template_name))

\* FormCollectionState(template_name, questions, form_data, is_active)
FormCollectionState(template_name, questions, is_active) ==
  [template_name |-> template_name, current_field_index |-> 0,
   questions |-> questions, form_data |-> <<>>, is_active |-> is_active]

\* FormCollectionState.get_current_field: <<field>> or <<>>
get_current_field(form_state) ==
  IF 0 <= form_state.current_field_index
     /\ form_state.current_field_index < Len(form_state.questions)
  THEN <<form_state.questions[form_state.current_field_index + 1]>>
  ELSE <<>>

\* FormCollectionState.move_to_next_field
move_to_next_field(form_state) ==
  [form_state EXCEPT !.current_field_index = @ + 1]

\* FormCollectionState.is_complete
is_complete(form_state) == form_state.current_field_index >= Len(form_state.questions)

Letters == {UpperLetters[i] : i \in 1..26} \cup {LowerLetters[i] : i \in 1..26}

\* re.match(r'^[a-zA-Z0-9._%+-]+@[a-zA-Z0-9.-]+\.[a-zA-Z]{2,}$', value)
MatchEmail(value) ==
  \E s \in (IF value # <<>> /\ value[Len(value)] = "\n"
            THEN {value, SubSeq(value, 1, Len(value) - 1)} ELSE {value}) :
     \E at \in 2..Len(s) : \E dot \in (at + 2)..(Len(s) - 2) :
       /\ s[at] = "@"
       /\ s[dot] = "."
       /\ \A i \in 1..(at - 1) : s[i] \in Letters \cup Digits \cup {".", "_", "%", "+", "-"}
       /\ \A i \in (at + 1)..(dot - 1) : s[i] \in Letters \cup Digits \cup {".", "-"}
       /\ \A i \in (dot + 1)..Len(s) : s[i] \in Letters

\* ChatUseCase._validate_field_value
_validate_field_value(field_name, value, template_name) ==
  LET Check(found) ==
        IF found = <<>> THEN Valid
        ELSE IF found[1].required /\ Strip(value) = <<>> THEN Invalid(ERR_REQUIRED)
        ELSE CASE found[1].field_type = "date" ->
                    IF MatchDate(value) THEN Valid ELSE Invalid(ERR_DATE)
               [] found[1].field_type = "number" ->
                    IF ParsesAsFloat(Remove(Remove(value, ","), ".")) THEN Valid
                    ELSE Invalid(ERR_NUMBER)
               [] found[1].field_type = "email" ->
                    IF MatchEmail(value) THEN Valid ELSE Invalid(ERR_EMAIL)
               [] OTHER -> Valid
  IN Check(FindField(TemplateFields(template_name), field_name))

\* ------------------------------------------------------------- chat_use_case.py
Meta(k, v) == [k |-> k, v |-> v]

\* a message of a Conversation
Message(role, content, intent, metadata) ==
  [role |-> role, content |-> content, intent |-> intent, metadata |-> metadata]

\* Conversation.get_context: the rendered last max_messages messages
get_context(messages) ==
  LET Render(recent_messages) ==
        [i \in 1..Len(recent_messages) |->
           [role |-> IF recent_messages[i].role = "user" THEN "Nguoi dung" ELSE "Bot",
            content |-> recent_messages[i].content]]
  IN Render(LastN(messages, 6))

\* IntentClassificationService.classify_intent: the intent is validated as
\* by the IntentClassifier; confidence in hundredths
intent_service_classify_intent(cls) ==
  LET Result(raw, intent) ==
        [intent |-> intent,
         confidence |-> IF \E k \in 1..3 : Keyword(intents[k]) = raw THEN 90
                        ELSE IF \E k \in 1..3 : Contains(raw, Keyword(intents[k])) THEN 70
                        ELSE 50,
         error |-> FALSE]
  IN IF cls.raised THEN [intent |-> "general", confidence |-> 0, error |-> TRUE]
     ELSE Result(LowerCase(Strip(cls.text)), classify_intent(cls))

\* a reranker that filters: it keeps only the candidates the cross-encoder
\* scored above zero
rerank_documents_filtering(documents, rerank) ==
  IF Len(documents) <= 1 THEN documents
  ELSE IF rerank.raised THEN documents
  ELSE SortDesc(SelectSeq([i \in 1..Len(documents) |->
                             [documents[i] EXCEPT !.reranked = TRUE,
                                                  !.rerank_score =
                                                    rerank.scores[documents[i].id]]],
                          LAMBDA d : d.rerank_score > 0))

\* CrossEncoderRerankingService.rerank_documents
rerank_documents(documents, rerank) ==
  IF Len(documents) <= 1 THEN documents
  ELSE IF rerank.raised THEN documents
  ELSE SortDesc([i \in 1..Len(documents) |->
                   [documents[i] EXCEPT !.reranked = TRUE,
                                        !.rerank_score = rerank.scores[documents[i].id]]])

\* result.rerank_score or result.score
SourceScore(result) ==
  IF result.reranked /\ result.rerank_score # 0 THEN result.rerank_score ELSE result.score

\* WeaviateDocumentRepository.search_chunks, when it does not raise: the
\* nearest top_k chunks, whatever their similarity
search_chunks(search, limit) == Take(search.docs, limit)

\* ChatUseCase._handle_legal_question; search_chunks re-raises its exception
UC_handle_legal_question(form_state, env) ==
  LET Sources(top) ==
        [i \in 1..Len(top) |-> [chunk |-> top[i].id, score |-> SourceScore(top[i])]]
      Answer(search_results, reranked_results) ==
        IF search_results = <<>>
        THEN Done(form_state,
                  Reply(<<MSG_NOT_FOUND>>, None, <<>>, FALSE, None, <<>>,
                        {Meta("no_results", "True")}),
                  "none", FALSE, FALSE)
        ELSE Done(form_state,
                  Reply(<<IF env.gen.raised THEN MSG_GENERATION_ERROR ELSE GENERATED>>,
                        None,
                        Sources(Take(reranked_results, 3)),
                        FALSE, None, <<>>, {Meta("reranked", "True")}),
                  "none", FALSE, TRUE)
      Reranked(search_results, reranked_results) ==
        Answer(search_results, reranked_results) @@ [retrieved |-> reranked_results]
      Searched(search_results) ==
        Reranked(search_results,
                 IF search_results = <<>> THEN <<>>
                 ELSE rerank_documents(Take(search_results, 5), env.rerank))
  IN IF env.search.raised
     THEN Raised(form_state, "SearchError", "none", FALSE, FALSE)
     ELSE Searched(search_chunks(env.search, 10))

\* ChatUseCase._handle_business_request
UC_handle_business_request(form_state, dir) ==
  LET Prompt(first_field) ==
        <<"\n\n", first_field.display_name, ": ">>
        \o (IF first_field.description # ""
            THEN <<"\n[note] ", first_field.description>> ELSE <<>>)
      Open(template, required_fields) ==
        Done(form_state,
             Reply(<<MSG_BUSINESS_INTRO, TemplateDisplayName(template)>>
                     \o (IF required_fields = <<>> THEN <<>>
                         ELSE Prompt(required_fields[1])),
                   None, <<>>, TRUE,
                   IF required_fields = <<>> THEN None ELSE required_fields[1].field_name,
                   <<>>, {Meta("template_name", template)}),
             "none", FALSE, FALSE)
      Start(templates) ==
        IF templates = <<>>
        THEN Done(form_state,
                  Reply(<<MSG_NO_TEMPLATE>>, None, <<>>, FALSE, None, <<>>,
                        {Meta("no_templates", "True")}),
                  "none", FALSE, FALSE)
        ELSE Open(templates[1], get_required_fields(templates[1]))
  IN Start(list_templates(dir))

\* ChatUseCase._handle_general_question
UC_handle_general_question(form_state, env) ==
  Done(form_state,
       Reply(<<IF env.gen.raised THEN MSG_GENERATION_ERROR ELSE GENERATED>>, None, <<>>,
             FALSE, None, <<>>, {Meta("general_consultation", "True")}),
       "none", FALSE, TRUE)

\* the display name a summary line shows: the field's, or the bare name
SummaryDisplay(found, field_name) ==
  IF found = <<>> THEN field_name ELSE found[1].display_name

\* the summary lines of the completion message
RECURSIVE UCSummaryLines(_, _)
UCSummaryLines(template_name, data) ==
  IF data = <<>> THEN <<>>
  ELSE <<"* ",
         SummaryDisplay(FindField(TemplateFields(template_name), Head(data).k),
                        Head(data).k),
         ": ">>
       \o Head(data).v \o <<"\n">> \o UCSummaryLines(template_name, Tail(data))

\* MemoryTemplateRepository.get_template finds the template
HasTemplate(templates, template_name) ==
  \E i \in 1..Len(templates) : templates[i] = template_name

\* ChatUseCase._handle_form_collection, form_state being active
UC_handle_form_collection(form_state, user_input, dir) ==
  LET Complete(closed) ==
        Done(closed,
             Reply(<<MSG_SUMMARY_HEAD>>
                     \o UCSummaryLines(form_state.template_name, closed.form_data)
                     \o <<MSG_SUMMARY_TAIL, MSG_EDIT>>,
                   None, <<>>, FALSE, None, closed.form_data,
                   {Meta("form_completed", "True")}),
             "ok", TRUE, FALSE)
      AskNext(saved, current_field, next_field) ==
        Done(saved,
             Reply(<<"[ok] Da luu: ", current_field.display_name, "\n\nTiep theo: ",
                     next_field.display_name>>
                     \o (IF next_field.description # ""
                         THEN <<"\n[note] ", next_field.description>> ELSE <<>>),
                   None, <<>>, TRUE, next_field.field_name, <<>>,
                   {Meta("field_completed", current_field.field_name)}),
             "ok", FALSE, FALSE)
      Saved(saved, current_field) ==
        IF is_complete(saved) THEN Complete([saved EXCEPT !.is_active = FALSE])
        ELSE AskNext(saved, current_field, get_current_field(saved)[1])
      Store(current_field, v) ==
        IF ~v.is_valid
        THEN Done(form_state,
                  Reply(<<"[x] ", v.error_message, "\n\nVui long nhap lai ",
                          lower[current_field.display_name], ":">>,
                        None, <<>>, TRUE, current_field.field_name, <<>>,
                        {Meta("validation_error", "True")}),
                  "failed", FALSE, FALSE)
        ELSE Saved(move_to_next_field(
                     [form_state EXCEPT
                        !.form_data = DictSet(@, current_field.field_name, user_input)]),
                   current_field)
      Field(current) ==
        IF current = <<>>
        THEN Done(form_state,
                  Reply(<<MSG_NO_FIELD>>, None, <<>>, FALSE, None, <<>>,
                        {Meta("error", "True")}),
                  "none", FALSE, FALSE)
        ELSE IF ~HasTemplate(list_templates(dir), form_state.template_name)
        THEN Done(form_state,
                  Reply(<<MSG_NO_TEMPLATE_FOUND>>, None, <<>>, FALSE, None, <<>>,
                        {Meta("error", "True")}),
                  "none", FALSE, FALSE)
        ELSE Store(current[1],
                   _validate_field_value(current[1].field_name, user_input,
                                         form_state.template_name))
  IN Field(get_current_field(form_state))

\* what process_message did, besides its result
Did(h, handler) ==
  [handler |-> handler, classifier_called |-> handler # "form",
   validation |-> h.validation, completed |-> h.completed, generated |-> h.generated,
   retrieved |-> IF "retrieved" \in DOMAIN h THEN h.retrieved ELSE <<>>]

\* the end of ChatUseCase.process_message: the bot message is added and the
\* conversation saved, or the exception of the handler h is turned into the
\* apology.  with_user is the conversation with the user message added.
Respond(stored, with_user, form, h, handler, response) ==
  IF h.raised # None
  THEN Did(h, handler)
         @@ [stored |-> IF stored = <<>> THEN <<>> ELSE <<with_user>>,
             form |-> form, exc |-> h.raised, raised |-> None,
             reply |-> <<Reply(<<MSG_APOLOGY>>, None, <<>>, FALSE, None, <<>>,
                               {Meta("error", "True"), Meta("error_message", h.raised)})>>]
  ELSE Did(h, handler)
         @@ [stored |-> <<Append(with_user,
                                 Message("assistant", response.message, response.intent,
                                         response.metadata))>>,
             form |-> IF handler = "form" THEN <<h.obj>> ELSE form,
             exc |-> None, raised |-> None, reply |-> <<response>>]

\* ChatUseCase.process_message.  stored is the repository's conversation under
\* the id (<<>>: none, <<messages>>), which get_conversation hands out by
\* reference, so that add_message changes it in place; form is the caller's
\* FormCollectionState (<<>>: None).  The result gives both as the call
\* leaves them.
UC_process_message(stored, user_message, form, env, dir) ==
  LET FormTurn(with_user, h) == Respond(stored, with_user, form, h, "form", h.reply[1])
      Handled(with_user, h, intent) ==
        Respond(stored, with_user, form, h, intent,
                [h.reply[1] EXCEPT !.intent = intent])
      Classified(with_user, intent) ==
        Handled(with_user,
                CASE intent = "legal" -> UC_handle_legal_question(form, env)
                  [] intent = "business" -> UC_handle_business_request(form, dir)
                  [] OTHER -> UC_handle_general_question(form, env),
                intent)
      Turn(with_user) ==
        IF form # <<>> /\ form[1].is_active
        THEN FormTurn(with_user, UC_handle_form_collection(form[1], user_message, dir))
        ELSE Classified(with_user, intent_service_classify_intent(env.cls).intent)
  IN Turn(Append(IF stored = <<>> THEN <<>> ELSE stored[1],
                 Message("user", user_message, None, {})))

\* ------------------------------------------------------------- the turns
\* what the user of a session types: a question on a classified turn, an
\* answer on a form turn (nothing, a name, a date)
Asks(s) == IF s = "s1" THEN {<<"h", "o", "i">>} ELSE {<<"x", "i", "n">>}
Answers(s) ==
  IF s = "s1"
  THEN {<<>>, <<"A", "n">>, <<"0", "1", "/", "0", "2", "/", "2", "0", "2", "4">>}
  ELSE {<<>>, <<"B", "o">>, <<"0", "3", "/", "0", "4", "/", "2", "0", "2", "5">>}

\* the candidates of the vector search and the cross-encoder's scores
d1 == Doc("c1", 90)
d2 == Doc("c2", 80)
d3 == Doc("c3", 60)
Searches ==
  {[raised |-> TRUE, docs |-> <<>>], [raised |-> FALSE, docs |-> <<>>],
   [raised |-> FALSE, docs |-> <<d3>>], [raised |-> FALSE, docs |-> <<d1, d2, d3>>]}
Scores ==
  [id \in {"c1", "c2", "c3", "c4"} |->
     CASE id = "c1" -> 10 [] id = "c2" -> 50 [] id = "c4" -> 10 [] OTHER -> 0]
Reranks == {[raised |-> TRUE, scores |-> Scores], [raised |-> FALSE, scores |-> Scores]}
Gens == {[raised |-> TRUE], [raised |-> FALSE]}
Cls(text) == [raised |-> FALSE, text |-> text]
ClsRaised == [raised |-> TRUE, text |-> <<>>]

\* the backends when no backend is called
Idle ==
  [cls |-> ClsRaised, search |-> [raised |-> FALSE, docs |-> <<>>],
   rerank |-> [raised |-> TRUE, scores |-> Scores], gen |-> [raised |-> FALSE]]

\* the backend outcomes of a classified turn, those of the calls the turn
\* does not make being left idle
Envs ==
  {[Idle EXCEPT !.cls = Cls(<<" ", "L", "e", "g", "a", "l", "\n">>), !.search = s] :
     s \in {x \in Searches : x.docs = <<>>}}
  \cup {[Idle EXCEPT !.cls = Cls(<<" ", "L", "e", "g", "a", "l", "\n">>),
                     !.search = s, !.rerank = r, !.gen = g] :
          s \in {x \in Searches : x.docs # <<>>}, r \in Reranks, g \in Gens}
  \cup {[Idle EXCEPT !.cls = Cls(KW_business)]}
  \cup {[Idle EXCEPT !.cls = c, !.gen = g] :
          c \in {Cls(<<"?">>), ClsRaised}, g \in Gens}

Deployments == {"legacy", "new", "use_case"}

\* sessions, session_timestamps: the SessionManager's tables; clock: the time
\* datetime.now() reads; expired_sessions: the ids the expiry sweep has yet to
\* delete; conversations: the MemoryConversationRepository; calls: the
\* process_message calls in flight on the event loop
VARIABLES deployment, templates_dir, users, budget, sessions, conversations,
          form_states, last, session_timestamps, clock, expired_sessions, calls

vars == <<deployment, templates_dir, users, budget, sessions, conversations,
          form_states, last, session_timestamps, clock, expired_sessions, calls>>

\* the process_message calls that can be in flight together
MaxInFlight == 2
CallIds == 1..MaxInFlight

\* a call that has not been made
NotCalled ==
  [pc |-> "none", conversation |-> "None", messages |-> <<>>, env |-> Idle,
   exc |-> None, reply |-> <<>>]

\* what the caller of the last turn saw, and what the turn did
Observed(op, sid, input, r, raised, exc) ==
  [op |-> op, sid |-> sid, input |-> input, reply |-> r.reply, raised |-> raised,
   exc |-> exc, handler |-> r.handler, classifier_called |-> r.classifier_called,
   validation |-> r.validation, completed |-> r.completed, generated |-> r.generated,
   retrieved |-> IF "retrieved" \in DOMAIN r THEN r.retrieved ELSE <<>>]

Init ==
  /\ deployment \in Deployments
  /\ templates_dir \in {{}, {"giay_de_nghi.docx"}}
  /\ users \in {{"s1"}, SessionIds}
  /\ budget = IF users = SessionIds
              THEN [classified |-> IsoClassified, answers |-> IsoAnswers]
              ELSE [classified |-> MaxClassified, answers |-> MaxAnswers]
  /\ sessions = [s \in SessionIds |-> <<>>]
  /\ conversations = [s \in SessionIds |-> <<>>]
  /\ form_states = [s \in SessionIds |-> <<>>]
  /\ last = [op |-> "init", sid |-> None, input |-> <<>>, reply |-> <<>>, raised |-> None,
             exc |-> None, handler |-> None, classifier_called |-> FALSE,
             validation |-> "none", completed |-> FALSE, generated |-> FALSE,
             retrieved |-> <<>>]
  /\ session_timestamps = [s \in SessionIds |-> <<>>]
  /\ clock = 0
  /\ expired_sessions = <<>>
  /\ calls = [c \in CallIds |-> NotCalled]

\* one turn of the budget: a form turn spends an answer, any other a question
Spend(form_turn) ==
  IF form_turn THEN [budget EXCEPT !.answers = @ - 1]
  ELSE [budget EXCEPT !.classified = @ - 1]
CanSpend(form_turn) ==
  IF form_turn THEN budget.answers > 0 ELSE budget.classified > 0

\* a get_session that hands every caller the chatbot of session "s1"
get_session_shared(session_id) ==
  IF sessions["s1"] = <<>> THEN NewChatbot(templates_dir) ELSE sessions["s1"][1]

\* SessionManager.get_session: the session's chatbot, created when missing
get_session(session_id) ==
  IF sessions[session_id] = <<>> THEN NewChatbot(templates_dir)
  ELSE sessions[session_id][1]

\* routers/chat.py send_message: an exception of process_message leaves as
\* an HTTP 500
send_message(s) ==
  /\ deployment = "legacy"
  /\ LET Handle(text, r) ==
           /\ sessions' = [sessions EXCEPT ![s] = <<r.obj>>]
           /\ last' = Observed("send_message", s, text, r, r.raised, r.raised)
           /\ session_timestamps' = [session_timestamps EXCEPT ![s] = <<clock>>]
         Request(chatbot, form_turn) ==
           /\ CanSpend(form_turn)
           /\ \E text \in IF form_turn THEN Answers(s) ELSE Asks(s) :
              \E env \in IF form_turn THEN {Idle} ELSE Envs :
                Handle(text, process_message(chatbot, text, env))
           /\ budget' = Spend(form_turn)
     IN Request(get_session(s), get_session(s).form_collection_state.active)
  /\ UNCHANGED <<clock, expired_sessions, calls>>
  /\ UNCHANGED <<deployment, templates_dir, users, conversations, form_states>>

\* the last reply to the user of s asked for a field of a form
Prompted(s) == last.sid = s /\ last.reply # <<>> /\ last.reply[1].form_active

\* routers_new/chat.py send_message: the conversation is created and saved
\* when missing, and process_message is called with form_state=None
send_message_new(s) ==
  /\ deployment = "new"
  /\ CanSpend(FALSE)
  /\ LET Handle(text, r) ==
           /\ conversations' = [conversations EXCEPT ![s] = r.stored]
           /\ last' = Observed("send_message_new", s, text, r, None, r.exc)
     IN \E text \in IF Prompted(s) THEN Answers(s) ELSE Asks(s) : \E env \in Envs :
          Handle(text,
                 UC_process_message(IF conversations[s] = <<>> THEN << <<>> >>
                                    ELSE conversations[s],
                                    text, <<>>, env, templates_dir))
  /\ budget' = Spend(FALSE)
  /\ UNCHANGED <<session_timestamps, clock, expired_sessions, calls>>
  /\ UNCHANGED <<deployment, templates_dir, users, sessions, form_states>>

\* ChatUseCase.process_message called with the form state its caller holds
call_process_message(s) ==
  /\ deployment = "use_case"
  /\ LET Handle(text, r) ==
           /\ conversations' = [conversations EXCEPT ![s] = r.stored]
           /\ form_states' = [form_states EXCEPT ![s] = r.form]
           /\ last' = Observed("process_message", s, text, r, None, r.exc)
         Call(form_turn) ==
           /\ CanSpend(form_turn)
           /\ \E text \in IF form_turn THEN Answers(s) ELSE Asks(s) :
              \E env \in IF form_turn THEN {Idle} ELSE Envs :
                Handle(text,
                       UC_process_message(conversations[s], text, form_states[s], env,
                                          templates_dir))
           /\ budget' = Spend(form_turn)
     IN Call(form_states[s] # <<>> /\ form_states[s][1].is_active)
  /\ UNCHANGED <<session_timestamps, clock, expired_sessions, calls>>
  /\ UNCHANGED <<deployment, templates_dir, users, sessions>>

\* the template a reply's metadata names
TemplateOf(reply) == (CHOOSE m \in reply.metadata : m.k = "template_name").v

\* the caller constructs the FormCollectionState of the form a reply opened
new_form_state(s) ==
  /\ deployment = "use_case"
  /\ last.sid = s
  /\ last.reply # <<>>
  /\ last.reply[1].form_active
  /\ form_states[s] = <<>>
  /\ LET Construct(template_name) ==
           form_states' = [form_states EXCEPT ![s] =
                             <<FormCollectionState(template_name,
                                                   get_required_fields(template_name),
                                                   TRUE)>>]
     IN Construct(TemplateOf(last.reply[1]))
  /\ UNCHANGED <<session_timestamps, clock, expired_sessions, calls>>
  /\ UNCHANGED <<deployment, templates_dir, users, budget, sessions, conversations, last>>

Next ==
  \/ \E s \in users : send_message(s)
  \/ \E s \in users : send_message_new(s)
  \/ \E s \in users : call_process_message(s)
  \/ \E s \in users : new_form_state(s)

Spec == Init /\ [][Next]_vars

\* ------------------------------------------------------------- views
\* the form state of a session: active flag, cursor, collected data.  The new
\* router keeps no form state, so its sessions are always blank.
Blank == [active |-> FALSE, cursor |-> 0, data |-> <<>>]
FormOf(s) ==
  CASE deployment = "legacy" /\ sessions[s] # <<>> ->
         [active |-> sessions[s][1].form_collection_state.active,
          cursor |-> sessions[s][1].form_collection_state.current_field_index,
          data |-> sessions[s][1].form_collection_state.collected_data]
    [] deployment = "use_case" /\ form_states[s] # <<>> ->
         [active |-> form_states[s][1].is_active,
          cursor |-> form_states[s][1].current_field_index,
          data |-> form_states[s][1].form_data]
    [] OTHER -> Blank

\* the questions of the form of a session
QuestionsOf(s) ==
  CASE deployment = "legacy" ->
         generate_form_collection_questions(_load_templates(templates_dir))
    [] deployment = "use_case" /\ form_states[s] # <<>> -> form_states[s][1].questions
    [] OTHER -> <<>>

\* the history of a session, as role, content and intent of each entry
HistoryOf(s) ==
  LET View(entries) ==
        [i \in 1..Len(entries) |->
           [role |-> entries[i].role, content |-> entries[i].content,
            intent |-> entries[i].intent]]
  IN CASE deployment = "legacy" /\ sessions[s] # <<>> ->
            View(sessions[s][1].conversation_history)
       [] deployment # "legacy" /\ conversations[s] # <<>> -> View(conversations[s][1])
       [] OTHER -> <<>>

\* this step is a process_message turn of session s
TurnOn(s) == budget' # budget /\ last'.sid = s

\* ------------------------------------------------------------- C1
\* C1: after a turn whose reply has form_active=true, the next turn of the
\* same session is handled by form collection and does not call the intent
\* classifier.
C1_FormActiveSkipsClassifier ==
  [][\A s \in SessionIds :
       (/\ last.sid = s
        /\ last.reply # <<>>
        /\ last.reply[1].form_active
        /\ TurnOn(s))
       => (last'.handler = "form" /\ ~last'.classifier_called)]_vars

\* ------------------------------------------------------------- C2
\* C2: a valid answer at cursor i of a form with N questions moves the cursor
\* to i+1 without completing when i+1 < N, and when i+1 = N produces the
\* completion reply, whose collected_data holds exactly the N pairs of field
\* name and raw answer.
C2_ValidAnswersStepToCompletion ==
  [][\A s \in SessionIds :
       (/\ TurnOn(s)
        /\ FormOf(s).active
        /\ FormOf(s).cursor < Len(QuestionsOf(s))
        /\ last'.validation = "ok")
       => IF FormOf(s).cursor + 1 < Len(QuestionsOf(s))
          THEN /\ FormOf(s)'.cursor = FormOf(s).cursor + 1
               /\ FormOf(s)'.active
               /\ ~last'.completed
          ELSE /\ last'.completed
               /\ last'.reply # <<>>
               /\ last'.reply[1].collected_data =
                    DictSet(FormOf(s).data,
                            QuestionsOf(s)[FormOf(s).cursor + 1].field_name, last'.input)
               /\ Len(last'.reply[1].collected_data) = Len(QuestionsOf(s))]_vars

\* ------------------------------------------------------------- C3
\* C3: while the form is active at field i, an answer that fails validation
\* (here also: an empty answer, every question being a required field)
\* leaves the form state unchanged: same cursor, same collected data, still
\* active.
C3_FailedValidationKeepsFormState ==
  [][\A s \in SessionIds :
       (/\ TurnOn(s)
        /\ FormOf(s).active
        /\ FormOf(s).cursor < Len(QuestionsOf(s))
        /\ (last'.validation = "failed" \/ Strip(last'.input) = <<>>))
       => FormOf(s)' = FormOf(s)]_vars

\* a validation failure at a field after the first, data being collected
C3_Witness ==
  /\ last.validation = "failed"
  /\ last.sid # None
  /\ FormOf(last.sid).active
  /\ FormOf(last.sid).cursor > 0
  /\ FormOf(last.sid).data # <<>>


\* ------------------------------------------------------------- C4
\* C4: a valid answer for the last field gives a reply with form_active=false
\* whose collected_data has all N fields, and leaves the form state blank:
\* inactive, cursor 0, no collected data.
C4_CompletionReturnsDataAndBlanksState ==
  [][\A s \in SessionIds :
       (/\ TurnOn(s)
        /\ FormOf(s).active
        /\ FormOf(s).cursor + 1 = Len(QuestionsOf(s))
        /\ last'.validation = "ok")
       => /\ last'.reply # <<>>
          /\ ~last'.reply[1].form_active
          /\ Keys(last'.reply[1].collected_data)
               = {QuestionsOf(s)[i].field_name : i \in 1..Len(QuestionsOf(s))}
          /\ FormOf(s)' = Blank]_vars

\* ------------------------------------------------------------- C5
\* the display name of a field of the deployment's catalog
DisplayNameOf(field_name) ==
  LET Name(found) == found[1].display_name IN
  IF deployment = "legacy"
  THEN Name(FindField(AllFields(_load_templates(templates_dir)), field_name))
  ELSE Name(FindField(TemplateFields(list_templates(templates_dir)[1]), field_name))

\* C5: a form turn that leaves the form active returns a reply with
\* form_active=true whose current_field is the field the cursor points at
\* after the turn, with the validation error in the message after a failure
\* and the display name of the answered field after a valid answer.
C5_FormTurnRepliesWithCursorField ==
  [][\A s \in SessionIds :
       (/\ TurnOn(s)
        /\ FormOf(s).active
        /\ FormOf(s).cursor < Len(QuestionsOf(s))
        /\ FormOf(s)'.active)
       => /\ last'.reply # <<>>
          /\ last'.reply[1].form_active
          /\ FormOf(s)'.cursor < Len(QuestionsOf(s))
          /\ last'.reply[1].current_field
               = QuestionsOf(s)[FormOf(s)'.cursor + 1].field_name
          /\ IF last'.validation = "failed"
             THEN \E e \in {ERR_DATE, ERR_NUMBER, ERR_REQUIRED, ERR_EMAIL} :
                     Contains(last'.reply[1].message, <<e>>)
             ELSE Contains(last'.reply[1].message,
                           <<DisplayNameOf(QuestionsOf(s)[FormOf(s).cursor + 1].field_name)>>)]_vars

\* ------------------------------------------------------------- C6
\* C6: a turn classified as business while no form is active makes the form
\* state active with cursor 0 and no collected data, and its reply has
\* form_active=true, the first question's field name as current_field and
\* that question's text in the message (the form having a first question).
C6_BusinessOpensForm ==
  [][\A s \in SessionIds :
       (/\ TurnOn(s)
        /\ ~FormOf(s).active
        /\ last'.handler = "business"
        /\ templates_dir # {})
       => /\ FormOf(s)' = [active |-> TRUE, cursor |-> 0, data |-> <<>>]
          /\ last'.reply # <<>>
          /\ last'.reply[1].form_active
          /\ QuestionsOf(s)' # <<>>
          /\ last'.reply[1].current_field = QuestionsOf(s)'[1].field_name
          /\ Contains(last'.reply[1].message, QuestionsOf(s)'[1].question)]_vars

\* ------------------------------------------------------------- C7
\* C7: every process_message turn appends exactly two entries to the history
\* of its session: the incoming text as a user message, then the reply as an
\* assistant message tagged with an intent; form turns included.
C7_TurnAppendsUserThenAssistant ==
  [][\A s \in SessionIds :
       TurnOn(s)
       => /\ Len(HistoryOf(s)') = Len(HistoryOf(s)) + 2
          /\ SubSeq(HistoryOf(s)', 1, Len(HistoryOf(s))) = HistoryOf(s)
          /\ HistoryOf(s)'[Len(HistoryOf(s)) + 1].role = "user"
          /\ HistoryOf(s)'[Len(HistoryOf(s)) + 1].content = last'.input
          /\ HistoryOf(s)'[Len(HistoryOf(s)) + 2].role = "assistant"
          /\ last'.reply # <<>>
          /\ HistoryOf(s)'[Len(HistoryOf(s)) + 2].content = last'.reply[1].message
          /\ HistoryOf(s)'[Len(HistoryOf(s)) + 2].intent \in {"legal", "business", "general"}]_vars

\* ------------------------------------------------------------- C8
\* C8: every turn returns a reply with a message and raises nothing to its
\* caller, whatever the state of the session and whichever backends fail.
C8_TurnAlwaysReplies ==
  last.op # "init"
  => /\ last.raised = None
     /\ last.reply # <<>>
     /\ last.reply[1].message # <<>>

\* ------------------------------------------------------------- C9
\* C9: when an exception is raised inside a turn, the history and the form
\* state of the session are after the call what they were before it, and the
\* caller receives the apology reply with an error marker in its metadata.
C9_ExceptionLeavesSessionUntouched ==
  [][\A s \in SessionIds :
       (TurnOn(s) /\ last'.exc # None)
       => /\ HistoryOf(s)' = HistoryOf(s)
          /\ FormOf(s)' = FormOf(s)
          /\ last'.raised = None
          /\ last'.reply # <<>>
          /\ last'.reply[1].message = <<MSG_APOLOGY>>
          /\ Meta("error", "True") \in last'.reply[1].metadata]_vars

\* ------------------------------------------------------------- C10
\* what a session's user has typed can only be one of that user's texts
OwnTexts(s) == Asks(s) \cup Answers(s)

\* C10: a turn of one session leaves the form state and the history of every
\* other session as they were, and the history and the collected data of a
\* session hold no text but those typed in that session.
C10_SessionsAreIsolated ==
  [][/\ \A s \in SessionIds : \A t \in SessionIds \ {s} :
          TurnOn(s) => (FormOf(t)' = FormOf(t) /\ HistoryOf(t)' = HistoryOf(t))
     /\ \A s \in SessionIds :
          /\ \A i \in 1..Len(FormOf(s)'.data) : FormOf(s)'.data[i].v \in OwnTexts(s)
          /\ \A i \in 1..Len(HistoryOf(s)') :
               HistoryOf(s)'[i].role = "user" => HistoryOf(s)'[i].content \in OwnTexts(s)]_vars

\* both sessions are collecting, each holding an answer of its own
C10_Witness ==
  /\ FormOf("s1").data # <<>>
  /\ FormOf("s2").data # <<>>
  /\ FormOf("s1").data # FormOf("s2").data


\* ------------------------------------------------------------- retrieval claims
\* C11: on every turn that answers a legal question, no candidate whose
\* similarity is below similarity_threshold is in the retrieved list (so the
\* list is empty when no candidate reaches the threshold)
C11_RetrievedMeetsThreshold ==
  last.handler = "legal" =>
    \A i \in 1..Len(last.retrieved) :
      last.retrieved[i].original_score >= similarity_threshold

\* ------------------------------------------------------------- the functions, called on their own
\* A second specification: Init draws the arguments of one call, and the
\* call's action applies the function and records what it returned.
MaxDocs == 3

\* the candidates of a collection, in the similarity order of the vector search
d4 == Doc("c4", 70)
Pool == <<d1, d2, d4, d3>>

RECURSIVE SubLists(_)
SubLists(pool) ==
  IF pool = <<>> THEN {<<>>}
  ELSE LET With(rest) == rest \cup {<<Head(pool)>> \o l : l \in rest}
       IN With(SubLists(Tail(pool)))

CandidateLists == {l \in SubLists(Pool) : Len(l) <= MaxDocs}

\* the cross-encoder's scores by chunk, or its failure
ScoreTables == [{"c1", "c2", "c3", "c4"} -> {0, 10, 50}]
RerankOutcomes ==
  {[raised |-> TRUE, scores |-> [id \in {"c1", "c2", "c3", "c4"} |-> 0]]}
    \cup {[raised |-> FALSE, scores |-> t] : t \in ScoreTables}
SearchOutcomes ==
  {[raised |-> TRUE, docs |-> <<>>]}
    \cup {[raised |-> FALSE, docs |-> l] : l \in CandidateLists}

Range(seq) == {seq[i] : i \in 1..Len(seq)}

RerankCalls ==
  {[op |-> "call", fn |-> "rerank", documents |-> l, rerank |-> o] :
     l \in CandidateLists, o \in RerankOutcomes}
LegalCalls ==
  {[op |-> "call", fn |-> "legal",
    env |-> [cls |-> Cls(KW_legal), search |-> f, rerank |-> o, gen |-> g]] :
     f \in SearchOutcomes, o \in Reranks, g \in Gens}

\* a search that finds many candidates above the threshold: the first
\* MaxHits of them, in similarity order
MaxHits == 6
ManyHits ==
  <<Doc("p1", 99), Doc("p2", 97), Doc("p3", 95), Doc("p4", 93), Doc("p5", 91),
    Doc("p6", 89), Doc("p7", 87), Doc("p8", 85)>>
\* cross-encoder scores that rank the candidates the other way round, that
\* prefer every second one, or that are all the same
ManyScores ==
  {[id \in {"p1", "p2", "p3", "p4", "p5", "p6", "p7", "p8"} |->
      CASE id = "p1" -> 10 [] id = "p2" -> 20 [] id = "p3" -> 30 [] id = "p4" -> 40
        [] id = "p5" -> 50 [] id = "p6" -> 60 [] id = "p7" -> 70 [] OTHER -> 80],
   [id \in {"p1", "p2", "p3", "p4", "p5", "p6", "p7", "p8"} |->
      IF id \in {"p2", "p4", "p6", "p8"} THEN 50 ELSE 0],
   [id \in {"p1", "p2", "p3", "p4", "p5", "p6", "p7", "p8"} |-> 30]}
ManyLegalCalls ==
  {[op |-> "call", fn |-> "legal",
    env |-> [cls |-> Cls(KW_legal),
             search |-> [raised |-> FALSE, docs |-> Take(ManyHits, n)],
             rerank |-> [raised |-> r, scores |-> t], gen |-> g]] :
     n \in 1..MaxHits, r \in BOOLEAN, t \in ManyScores, g \in Gens}

\* what the classification backend completes with, or its failure
Completions ==
  {KW_legal, KW_business, KW_general,
   <<" ">> \o KW_legal \o <<"\n">>,
   <<"L", "E", "G", "A", "L">>,
   <<"B", "u", "s", "i", "n", "e", "s", "s", ".">>,
   <<"i", "l">> \o KW_legal,
   KW_general \o <<" ">> \o KW_business,
   KW_business \o <<",", " ">> \o KW_legal,
   KW_general \o <<"/">> \o KW_legal,
   <<"\t">> \o KW_general \o <<"!">>,
   <<"l", "e", "g", "a">>,
   <<"?">>,
   <<" ">>,
   <<>>}
ClassifyCalls ==
  {[op |-> "call", fn |-> "classify", cls |-> c] :
     c \in {ClsRaised} \cup {Cls(t) : t \in Completions}}

\* the template files found in the templates directory
QuestionCalls ==
  {[op |-> "call", fn |-> "questions", dir |-> d] : d \in SUBSET Range(template_files)}

\* a conversation of so many earlier exchanges, each a question and its
\* reply, when the next question comes
MaxPairs == 4
ContextCalls == {[op |-> "call", fn |-> "context", pairs |-> n] : n \in 0..MaxPairs}

\* the readings of the clock
MaxClock == 3

\* an append to a conversation of some exchanges that was last updated at
\* updated_at; now is the reading of the clock at the append, a later one
AppendCalls ==
  {c \in [op : {"call"}, fn : {"add_message"}, pairs : 0..MaxPairs,
          role : {"user", "assistant"}, updated_at : 0..MaxClock, now : 0..MaxClock] :
     c.now > c.updated_at}

\* a classified turn on a conversation of some exchanges
TurnCalls ==
  [op : {"call"}, fn : {"turn"}, pairs : 0..MaxPairs, env : Envs]

\* answers to the question for a date field: a date, other notations, a date
\* with something before or after it, a date with a digit of another script
DateAnswers ==
  {<<"0", "1", "/", "0", "2", "/", "2", "0", "2", "4">>,
   <<"2", "0", "2", "4", "-", "0", "1", "-", "0", "1">>,
   <<"1", "/", "1", "/", "2", "0", "2", "4">>,
   <<>>,
   <<"0", "1", "/", "0", "2", "/", "2", "0", "2", "4", "\n">>,
   <<"0", "1", "/", "0", "2", "/", "2", "0", "2", "4", " ">>,
   <<" ", "0", "1", "/", "0", "2", "/", "2", "0", "2", "4">>,
   <<"0", "1", "/", "0", "2", "/", "2", "0", "2", "4", "5">>,
   <<"0", "U+0661", "/", "0", "2", "/", "2", "0", "2", "4">>,
   <<"a", "b", "/", "c", "d", "/", "e", "f", "g", "h">>}

\* the date fields of the catalog, each with its template
DateFields ==
  {[template_name |-> "giay_de_nghi.docx", field_name |-> "ngay_lap_don"],
   [template_name |-> "danh_sach_chu_so_huu.docx", field_name |-> "chu_so_huu_ngay_sinh"]}

DateCalls ==
  {[op |-> "call", fn |-> "validate_date", template_name |-> f.template_name,
    field_name |-> f.field_name, value |-> v] : f \in DateFields, v \in DateAnswers}

Calls ==
  RerankCalls \cup LegalCalls \cup ManyLegalCalls \cup ClassifyCalls \cup QuestionCalls
    \cup ContextCalls \cup AppendCalls \cup TurnCalls \cup DateCalls

InitCalls ==
  /\ deployment \in {"legacy", "new"}
  /\ templates_dir = {}
  /\ users = {}
  /\ budget = [classified |-> 0, answers |-> 0]
  /\ sessions = [s \in SessionIds |-> <<>>]
  /\ conversations = [s \in SessionIds |-> <<>>]
  /\ form_states = [s \in SessionIds |-> <<>>]
  /\ last \in Calls
  /\ session_timestamps = [s \in SessionIds |-> <<>>]
  /\ clock = 0
  /\ expired_sessions = <<>>
  /\ calls = [c \in CallIds |-> NotCalled]

\* EnhancedRetriever._rerank_documents or
\* CrossEncoderRerankingService.rerank_documents on a candidate list
call_rerank ==
  /\ last.op = "call"
  /\ last.fn = "rerank"
  /\ last' = [op |-> "return", fn |-> "rerank", documents |-> last.documents,
              rerank |-> last.rerank,
              result |-> IF deployment = "legacy"
                         THEN _rerank_documents(last.documents, last.rerank)
                         ELSE rerank_documents(last.documents, last.rerank)]
  /\ UNCHANGED <<session_timestamps, clock, expired_sessions, calls>>
  /\ UNCHANGED <<deployment, templates_dir, users, budget, sessions, conversations,
                 form_states>>

\* _handle_legal_question of either architecture on the outcomes of the
\* backends
call_handle_legal_question ==
  /\ last.op = "call"
  /\ last.fn = "legal"
  /\ last' = [op |-> "return", fn |-> "legal", env |-> last.env,
              result |-> IF deployment = "legacy"
                         THEN _handle_legal_question(NewChatbot(templates_dir), last.env)
                         ELSE UC_handle_legal_question(<<>>, last.env)]
  /\ UNCHANGED <<session_timestamps, clock, expired_sessions, calls>>
  /\ UNCHANGED <<deployment, templates_dir, users, budget, sessions, conversations,
                 form_states>>

\* IntentClassifier.classify_with_confidence or
\* IntentClassificationService.classify_intent on a backend outcome; neither
\* lets an exception out
call_classify ==
  /\ last.op = "call"
  /\ last.fn = "classify"
  /\ last' = [op |-> "return", fn |-> "classify", cls |-> last.cls, raised |-> None,
              result |-> IF deployment = "legacy"
                         THEN classify_with_confidence(last.cls, FALSE)
                         ELSE intent_service_classify_intent(last.cls)]
  /\ UNCHANGED <<session_timestamps, clock, expired_sessions, calls>>
  /\ UNCHANGED <<deployment, templates_dir, users, budget, sessions, conversations,
                 form_states>>

\* all fields of the new architecture's templates, template order then
\* field order
RECURSIVE AllTemplateFields(_)
AllTemplateFields(templates) ==
  IF templates = <<>> THEN <<>>
  ELSE TemplateFields(Head(templates)) \o AllTemplateFields(Tail(templates))

\* the fields ChatUseCase._handle_business_request sets out to collect: the
\* required fields of templates[0]
UC_required_fields(templates) ==
  IF templates = <<>> THEN <<>> ELSE get_required_fields(templates[1])

\* the question list for the templates of a directory:
\* TemplateParser.generate_form_collection_questions, or the required fields
\* of ChatUseCase._handle_business_request; known is every field of the
\* templates, in template order then field order
call_questions ==
  /\ last.op = "call"
  /\ last.fn = "questions"
  /\ last' = [op |-> "return", fn |-> "questions", dir |-> last.dir,
              known |-> IF deployment = "legacy"
                        THEN AllFields(_load_templates(last.dir))
                        ELSE AllTemplateFields(list_templates(last.dir)),
              questions |-> IF deployment = "legacy"
                            THEN generate_form_collection_questions(
                                   _load_templates(last.dir))
                            ELSE UC_required_fields(list_templates(last.dir))]
  /\ UNCHANGED <<session_timestamps, clock, expired_sessions, calls>>
  /\ UNCHANGED <<deployment, templates_dir, users, budget, sessions, conversations,
                 form_states>>

\* the i-th question of a conversation and the reply to it
Numerals == <<"1", "2", "3", "4", "5", "6", "7", "8", "9">>
Exchange(i) ==
  <<[role |-> "user", content |-> <<"q", Numerals[i]>>],
    [role |-> "assistant", content |-> <<"a", Numerals[i]>>]>>
RECURSIVE Exchanges(_)
Exchanges(n) == IF n = 0 THEN <<>> ELSE Exchanges(n - 1) \o Exchange(n)

\* process_message up to the classifier call: the user message is appended
\* to the history, and then the context is computed from the history
call_context ==
  /\ last.op = "call"
  /\ last.fn = "context"
  /\ LET Legacy(earlier, user_input) ==
           _get_conversation_context(
             [NewChatbot(templates_dir) EXCEPT
                !.conversation_history =
                  [i \in 1..Len(earlier) |->
                     Entry(earlier[i].role, earlier[i].content, None)]
                    \o <<Entry("user", user_input, None)>>])
         New(earlier, user_message) ==
           get_context([i \in 1..Len(earlier) |->
                          Message(earlier[i].role, earlier[i].content, None, {})]
                         \o <<Message("user", user_message, None, {})>>)
         Turn(earlier, text) ==
           last' = [op |-> "return", fn |-> "context", pairs |-> last.pairs,
                    earlier |-> earlier, input |-> text,
                    context |-> IF deployment = "legacy" THEN Legacy(earlier, text)
                                ELSE New(earlier, text)]
     IN Turn(Exchanges(last.pairs), <<"q", Numerals[last.pairs + 1]>>)
  /\ UNCHANGED <<session_timestamps, clock, expired_sessions, calls>>
  /\ UNCHANGED <<deployment, templates_dir, users, budget, sessions, conversations,
                 form_states>>

\* Conversation.add_message without the update of updated_at
add_message_untimed(conversation, message, now) ==
  [conversation EXCEPT !.messages = Append(@, message)]

\* Conversation.add_message; now is datetime.now()
add_message(conversation, message, now) ==
  [conversation EXCEPT !.messages = Append(@, message), !.updated_at = now]

\* the messages of some earlier exchanges
Messages(earlier) ==
  [i \in 1..Len(earlier) |-> Message(earlier[i].role, earlier[i].content, None, {})]

\* Conversation.add_message on a conversation of earlier exchanges
call_add_message ==
  /\ last.op = "call"
  /\ last.fn = "add_message"
  /\ LET Add(conversation, message) ==
           last' = [op |-> "return", fn |-> "add_message", pairs |-> last.pairs,
                    now |-> last.now, message |-> message, before |-> conversation,
                    after |-> add_message(conversation, message, last.now)]
     IN Add([messages |-> Messages(Exchanges(last.pairs)),
             updated_at |-> last.updated_at],
            Message(last.role, <<"q", Numerals[last.pairs + 1]>>, None, {}))
  /\ UNCHANGED <<session_timestamps, clock, expired_sessions, calls>>
  /\ UNCHANGED <<deployment, templates_dir, users, budget, sessions, conversations,
                 form_states>>

\* role and content of the entries of a history
Texts(entries) ==
  [i \in 1..Len(entries) |-> [role |-> entries[i].role, content |-> entries[i].content]]

\* process_message on a conversation of earlier exchanges: the history before
\* and after the turn
call_turn ==
  /\ last.op = "call"
  /\ last.fn = "turn"
  /\ LET Legacy(earlier, user_input) ==
           process_message(
             [NewChatbot(templates_dir) EXCEPT
                !.conversation_history =
                  [i \in 1..Len(earlier) |->
                     Entry(earlier[i].role, earlier[i].content, None)]],
             user_input, last.env).obj.conversation_history
         New(earlier, user_message) ==
           UC_process_message(<<Messages(earlier)>>, user_message, <<>>, last.env,
                              templates_dir).stored[1]
         Turn(earlier, text) ==
           last' = [op |-> "return", fn |-> "turn", pairs |-> last.pairs,
                    input |-> text, before |-> earlier,
                    after |-> Texts(IF deployment = "legacy" THEN Legacy(earlier, text)
                                    ELSE New(earlier, text))]
     IN Turn(Exchanges(last.pairs), <<"q", Numerals[last.pairs + 1]>>)
  /\ UNCHANGED <<session_timestamps, clock, expired_sessions, calls>>
  /\ UNCHANGED <<deployment, templates_dir, users, budget, sessions, conversations,
                 form_states>>

\* TemplateParser.validate_field_value with the template loaded, or
\* ChatUseCase._validate_field_value, on an answer for a date field
call_validate_date ==
  /\ last.op = "call"
  /\ last.fn = "validate_date"
  /\ last' = [op |-> "return", fn |-> "validate_date", field_name |-> last.field_name,
              value |-> last.value,
              result |-> IF deployment = "legacy"
                         THEN validate_field_value(_load_templates({last.template_name}),
                                                   last.field_name, last.value)
                         ELSE _validate_field_value(last.field_name, last.value,
                                                    last.template_name)]
  /\ UNCHANGED <<session_timestamps, clock, expired_sessions, calls>>
  /\ UNCHANGED <<deployment, templates_dir, users, budget, sessions, conversations,
                 form_states>>

NextCalls ==
  \/ call_validate_date
  \/ call_add_message
  \/ call_turn
  \/ call_context
  \/ call_rerank
  \/ call_handle_legal_question
  \/ call_classify
  \/ call_questions

SpecCalls == InitCalls /\ [][NextCalls]_vars

\* the chunk ids of a list, and how often a chunk is in it
Ids(docs) == [i \in 1..Len(docs) |-> docs[i].id]
Count(docs, id) == Cardinality({i \in 1..Len(docs) : docs[i].id = id})
IsPermutation(out, in) ==
  /\ Len(out) = Len(in)
  /\ \A id \in {"c1", "c2", "c3", "c4"} : Count(out, id) = Count(in, id)

\* C12, as stated: reranking returns each chunk of its input exactly once
\* and no other, and with more than one candidate given every element of the
\* output carries a rerank_score
C12_RerankPermutesAndAnnotates ==
  (last.op = "return" /\ last.fn = "rerank") =>
    /\ IsPermutation(last.result, last.documents)
    /\ Len(last.documents) > 1 => \A i \in 1..Len(last.result) : last.result[i].reranked

\* C12, amended: reranking returns each chunk of its input exactly once and
\* no other; with more than one candidate given and a reranking backend that
\* did not raise, every element of the output carries a rerank_score
C12_RerankPermutesAndAnnotatesUnlessFailed ==
  (last.op = "return" /\ last.fn = "rerank") =>
    /\ IsPermutation(last.result, last.documents)
    /\ (Len(last.documents) > 1 /\ ~last.rerank.raised) =>
         \A i \in 1..Len(last.result) :
           /\ last.result[i].reranked
           /\ last.result[i].rerank_score = last.rerank.scores[last.result[i].id]

C12_Witness ==
  /\ last.op = "return"
  /\ last.fn = "rerank"
  /\ Len(last.documents) = 3
  /\ ~last.rerank.raised
  /\ Ids(last.result) # Ids(last.documents)

Min(a, b) == IF a < b THEN a ELSE b

\* out holds elements of in, as they are in in and in the order of in
RECURSIVE OrderedSublist(_, _)
OrderedSublist(out, in) ==
  IF out = <<>> THEN TRUE
  ELSE IF in = <<>> THEN FALSE
  ELSE IF Head(out) = Head(in) THEN OrderedSublist(Tail(out), Tail(in))
  ELSE OrderedSublist(out, Tail(in))

\* C13: when the reranking backend raises, reranking returns its input as it
\* was given (same order, every score unchanged), and the legal handler goes
\* on with the candidates in similarity order: it raises nothing, replies,
\* and its retrieved list holds unchanged candidates of the search, in the
\* search's order, none of the first rerank_top_k that reaches the threshold
\* left out
C13_RerankFailureFallsBack ==
  /\ (last.op = "return" /\ last.fn = "rerank" /\ last.rerank.raised) =>
       last.result = last.documents
  /\ (last.op = "return" /\ last.fn = "legal" /\ last.env.rerank.raised
        /\ ~last.env.search.raised) =>
       /\ last.result.raised = None
       /\ last.result.reply # <<>>
       /\ OrderedSublist(last.result.retrieved, last.env.search.docs)
       /\ \A i \in 1..Min(Len(last.env.search.docs), rerank_top_k) :
            last.env.search.docs[i].score >= similarity_threshold =>
              \E j \in 1..Len(last.result.retrieved) :
                last.result.retrieved[j] = last.env.search.docs[i]

C13_Witness ==
  /\ last.op = "return"
  /\ last.fn = "legal"
  /\ last.env.rerank.raised
  /\ Len(last.result.retrieved) >= 2
  /\ last.result.generated

\* C14: on a turn classified as legal whose retrieval yields no result, the
\* generation backend is not called, and the reply is the fixed not-found
\* message with intent legal and no sources
C14_NoResultsSkipsGeneration ==
  (last.handler = "legal" /\ last.exc = None /\ last.retrieved = <<>>) =>
    /\ ~last.generated
    /\ last.reply # <<>>
    /\ last.reply[1].message \in {<<MSG_NOT_FOUND, MSG_NOT_FOUND_HINT>>, <<MSG_NOT_FOUND>>}
    /\ last.reply[1].intent = "legal"
    /\ last.reply[1].sources = <<>>

C14_Witness ==
  /\ last.handler = "legal"
  /\ last.exc = None
  /\ last.retrieved = <<>>
  /\ last.reply # <<>>
  /\ last.reply[1].sources = <<>>
  /\ ~last.generated

\* ------------------------------------------------------------- classification claims
\* the backend's reply, lower-cased and trimmed
Trimmed(cls) == LowerCase(Strip(cls.text))

\* what C15 expects for a reply r: [intent, confidence], in hundredths
Expected(r) ==
  IF r = KW_legal THEN [intent |-> "legal", confidence |-> 90]
  ELSE IF r = KW_business THEN [intent |-> "business", confidence |-> 90]
  ELSE IF r = KW_general THEN [intent |-> "general", confidence |-> 90]
  ELSE IF Contains(r, KW_legal) THEN [intent |-> "legal", confidence |-> 70]
  ELSE IF Contains(r, KW_business) THEN [intent |-> "business", confidence |-> 70]
  ELSE IF Contains(r, KW_general) THEN [intent |-> "general", confidence |-> 70]
  ELSE [intent |-> "general", confidence |-> 50]

\* C15: for a backend reply r, lower-cased and trimmed, classify returns r
\* with confidence 0.9 when r is exactly legal, business or general; else the
\* first of legal, business, general that is a substring of r, with confidence
\* 0.7; else general with confidence 0.5
C15_ClassifyIntentAndConfidence ==
  (last.op = "return" /\ last.fn = "classify" /\ ~last.cls.raised) =>
    /\ last.result.intent = Expected(Trimmed(last.cls)).intent
    /\ "confidence" \in DOMAIN last.result
    /\ last.result.confidence = Expected(Trimmed(last.cls)).confidence

\* C16: classify never raises; when the backend raises it returns general
\* with confidence 0.0 and an error marker; in every case the intent is one
\* of legal, business, general and the result carries a confidence
C16_ClassifyNeverRaises ==
  (last.op = "return" /\ last.fn = "classify") =>
    /\ last.raised = None
    /\ last.result.intent \in {"legal", "business", "general"}
    /\ "confidence" \in DOMAIN last.result
    /\ last.cls.raised =>
         /\ last.result.intent = "general"
         /\ last.result.confidence = 0
         /\ "error" \in DOMAIN last.result
         /\ last.result.error

\* ------------------------------------------------------------- session management
\* The legacy API's session endpoints, in a specification of their own: the
\* turns of the legacy router and the requests on a session id.

\* a clear_conversation that forgets the history and leaves the form alone
clear_conversation_history_only(bot) ==
  [bot EXCEPT !.conversation_history = <<>>, !.current_intent = None]

\* ConversationalRAGChatbot.clear_conversation
clear_conversation(bot) ==
  [bot EXCEPT !.conversation_history = <<>>,
              !.current_intent = None,
              !.form_collection_state =
                [active |-> FALSE, current_field_index |-> 0, collected_data |-> <<>>,
                 questions |-> generate_form_collection_questions(bot.templates)]]

\* ConversationalRAGChatbot.get_system_stats, as far as the session info uses it
get_system_stats(bot) ==
  [conversation_length |-> Len(bot.conversation_history),
   current_intent |-> bot.current_intent,
   form_active |-> bot.form_collection_state.active]

\* SessionManager.get_session_info: ValueError for an id without session
SessionManager_get_session_info(session_id) ==
  IF sessions[session_id] = <<>>
  THEN [raised |-> "ValueError", info |-> <<>>]
  ELSE [raised |-> None, info |-> <<get_system_stats(sessions[session_id][1])>>]

\* what the caller of a session endpoint saw: raised is the HTTP error
Managed(op, sid, raised, info) ==
  [op |-> op, sid |-> sid, input |-> <<>>, reply |-> <<>>, raised |-> raised,
   exc |-> raised, handler |-> None, classifier_called |-> FALSE, validation |-> "none",
   completed |-> FALSE, generated |-> FALSE, retrieved |-> <<>>, info |-> info]

\* routers/sessions.py get_session_info: ValueError becomes 404
get_session_info(s) ==
  /\ deployment = "legacy"
  /\ LET Answer(session_info) ==
           last' = Managed("get_session_info", s,
                           IF session_info.raised = "ValueError" THEN "HTTP404" ELSE None,
                           session_info.info)
     IN Answer(SessionManager_get_session_info(s))
  /\ UNCHANGED <<session_timestamps, clock, expired_sessions, calls>>
  /\ UNCHANGED <<deployment, templates_dir, users, budget, sessions, conversations,
                 form_states>>

\* api/main.py get_session_info, the handler the application defines for the
\* same path after it has included the router: it asks get_session for the
\* chatbot, which creates the session when it is missing
main_get_session_info(s) ==
  /\ deployment = "legacy"
  /\ LET Answer(chatbot) ==
           /\ sessions' = [sessions EXCEPT ![s] = <<chatbot>>]
           /\ session_timestamps' = [session_timestamps EXCEPT ![s] = <<clock>>]
           /\ last' = Managed("main_get_session_info", s, None,
                              <<get_system_stats(chatbot)>>)
     IN Answer(get_session(s))
  /\ UNCHANGED <<clock, expired_sessions, calls>>
  /\ UNCHANGED <<deployment, templates_dir, users, budget, conversations, form_states>>

\* routers/sessions.py delete_session
delete_session(s) ==
  /\ deployment = "legacy"
  /\ IF sessions[s] = <<>>
     THEN /\ last' = Managed("delete_session", s, "HTTP404", <<>>)
          /\ UNCHANGED <<sessions, session_timestamps>>
     ELSE /\ sessions' = [sessions EXCEPT ![s] = <<>>]
          /\ session_timestamps' = [session_timestamps EXCEPT ![s] = <<>>]
          /\ last' = Managed("delete_session", s, None, <<>>)
  /\ UNCHANGED <<clock, expired_sessions, calls>>
  /\ UNCHANGED <<deployment, templates_dir, users, budget, conversations, form_states>>

\* routers/sessions.py clear_session; info keeps what the session was like
\* when the request came
clear_session(s) ==
  /\ deployment = "legacy"
  /\ sessions' = [sessions EXCEPT ![s] = <<clear_conversation(get_session(s))>>]
  /\ session_timestamps' = [session_timestamps EXCEPT ![s] = <<clock>>]
  /\ last' = Managed("clear_session", s, None, <<get_system_stats(get_session(s))>>)
  /\ UNCHANGED <<clock, expired_sessions, calls>>
  /\ UNCHANGED <<deployment, templates_dir, users, budget, conversations, form_states>>

InitSessions == Init /\ deployment = "legacy"

NextSessions ==
  \/ \E s \in users : send_message(s)
  \/ \E s \in users : get_session_info(s)
  \/ \E s \in users : main_get_session_info(s)
  \/ \E s \in users : delete_session(s)
  \/ \E s \in users : clear_session(s)

SpecSessions == InitSessions /\ [][NextSessions]_vars

\* C17: whatever the session was like, the middle of a form included,
\* clear_conversation leaves it with an empty history and an inactive form
\* with cursor 0, no collected data and the full question list; the next
\* turn is classified, and a business turn then starts at the first question
C17_ClearResetsSession ==
  [][\A s \in users :
       (last.op = "clear_session" /\ last.sid = s) =>
         /\ sessions[s] # <<>>
         /\ HistoryOf(s) = <<>>
         /\ FormOf(s) = Blank
         /\ sessions[s][1].current_intent = None
         /\ sessions[s][1].form_collection_state.questions = QuestionsOf(s)
         /\ TurnOn(s) =>
              /\ last'.classifier_called
              /\ (last'.handler = "business" /\ QuestionsOf(s) # <<>>) =>
                   /\ FormOf(s)' = [active |-> TRUE, cursor |-> 0, data |-> <<>>]
                   /\ last'.reply # <<>>
                   /\ last'.reply[1].form_active
                   /\ last'.reply[1].current_field = QuestionsOf(s)[1].field_name]_vars

\* a session cleared in the middle of its form, after an answer was recorded
C17_Witness ==
  /\ last.op = "clear_session"
  /\ last.info[1].form_active
  /\ last.info[1].conversation_length >= 3
  /\ FormOf(last.sid) = Blank
  /\ HistoryOf(last.sid) = <<>>

\* ------------------------------------------------------------- question list claims
\* where a field name is first required among the fields (0: nowhere)
FirstRequired(fields, field_name) ==
  IF \E i \in 1..Len(fields) : fields[i].field_name = field_name /\ fields[i].required
  THEN CHOOSE i \in 1..Len(fields) :
         /\ fields[i].field_name = field_name /\ fields[i].required
         /\ \A j \in 1..(i - 1) :
              ~(fields[j].field_name = field_name /\ fields[j].required)
  ELSE 0

\* C18: the question list holds the required fields of all known templates:
\* each field name that is required somewhere once, in the order of their
\* first required occurrence (template order, then field order); no field
\* that is nowhere required, and no required field left out
C18_QuestionsAreTheRequiredFields ==
  (last.op = "return" /\ last.fn = "questions") =>
    /\ \A i \in 1..Len(last.questions) :
         FirstRequired(last.known, last.questions[i].field_name) > 0
    /\ \A k \in 1..Len(last.known) :
         last.known[k].required =>
           \E i \in 1..Len(last.questions) :
             last.questions[i].field_name = last.known[k].field_name
    /\ \A i, j \in 1..Len(last.questions) :
         i < j => FirstRequired(last.known, last.questions[i].field_name)
                    < FirstRequired(last.known, last.questions[j].field_name)

C20_RecordedIffCursorPassed ==
  \A s \in users :
    FormOf(s).active =>
      /\ FormOf(s).cursor <= Len(QuestionsOf(s))
      /\ Keys(FormOf(s).data) =
           {QuestionsOf(s)[i].field_name : i \in 1..FormOf(s).cursor}

\* a form left active by a turn that recorded an answer
C20_Witness ==
  \E s \in users :
    /\ FormOf(s).active
    /\ FormOf(s).cursor >= 1
    /\ Keys(FormOf(s).data) = {QuestionsOf(s)[1].field_name}
    /\ last.sid = s
    /\ last.handler = "form"
    /\ last.validation = "ok"

\* ------------------------------------------------------------- truncation and sources
\* the candidates of a search that pass the similarity threshold
Passed(docs) == SelectSeq(Take(docs, top_k), LAMBDA d : d.score >= similarity_threshold)


\* C21: the list is cut to rerank_top_k after reranking: with a reranker that
\* ran, the retrieved list has at most rerank_top_k results, in descending
\* order of rerank score, and holds the highest-reranked of all candidates
\* that passed the threshold, none of them cut off before it was reranked
C21_TruncationFollowsReranking ==
  (last.op = "return" /\ last.fn = "legal" /\ ~last.env.search.raised
     /\ ~last.env.rerank.raised) =>
    LET Holds(retrieved, passed, scores) ==
          /\ Len(retrieved) = Min(rerank_top_k, Len(passed))
          /\ \A i, j \in 1..Len(retrieved) :
               i < j => scores[retrieved[i].id] >= scores[retrieved[j].id]
          /\ \A i \in 1..Len(retrieved) :
               \E k \in 1..Len(passed) : passed[k].id = retrieved[i].id
          /\ \A k \in 1..Len(passed) :
               \/ \E i \in 1..Len(retrieved) : retrieved[i].id = passed[k].id
               \/ \A i \in 1..Len(retrieved) :
                    scores[retrieved[i].id] >= scores[passed[k].id]
    IN Holds(last.result.retrieved, Passed(last.env.search.docs), last.env.rerank.scores)

\* C22: the sources of a legal reply are min(3, n) entries for n retrieved
\* results, entry i for result i of the reranked order, and an entry's score
\* is the result's rerank score whenever reranking has run, a rerank score
\* of 0 included
C22_SourcesFollowRerankedOrder ==
  (last.op = "return" /\ last.fn = "legal" /\ last.result.reply # <<>>) =>
    LET Holds(sources, retrieved) ==
          /\ Len(sources) = Min(3, Len(retrieved))
          /\ \A i \in 1..Len(sources) :
               /\ sources[i].chunk = retrieved[i].id
               /\ retrieved[i].reranked => sources[i].score = retrieved[i].rerank_score
    IN Holds(last.result.reply[1].sources, last.result.retrieved)

\* ------------------------------------------------------------- context and history
\* the rendering of entries as the context shows them
Rendered(entries) ==
  [i \in 1..Len(entries) |->
     [role |-> IF entries[i].role = "user" THEN "Nguoi dung" ELSE "Bot",
      content |-> entries[i].content]]

\* C23: the context of a classified turn is the rendering, oldest first, of
\* the last 3 user+assistant pairs of the conversation: at most 6 entries,
\* user and assistant in turn, and none when no earlier exchange exists
C23_ContextIsLastThreePairs ==
  (last.op = "return" /\ last.fn = "context") =>
    /\ last.context = Rendered(LastN(last.earlier, 6))
    /\ last.earlier = <<>> => last.context = <<>>

\* earlier is the beginning of later
IsPrefix(earlier, later) ==
  /\ Len(earlier) <= Len(later)
  /\ \A i \in 1..Len(earlier) : later[i] = earlier[i]

http_500_detail(raised) ==
  IF raised = None THEN <<>> ELSE <<"Error processing message: ", raised>>

\* the apology's metadata entries that carry the exception
ErrorMessages(reply) ==
  IF reply = <<>> THEN {} ELSE {m \in reply[1].metadata : m.k = "error_message"}

\* C25: on a failure of the turn nothing returned to the caller carries the
\* exception: neither the detail of an error response nor the metadata of
\* the reply
C25_NoExceptionTextReturned ==
  last.exc # None =>
    /\ \A i \in 1..Len(http_500_detail(last.raised)) :
         http_500_detail(last.raised)[i] # last.exc
    /\ \A m \in ErrorMessages(last.reply) : m.v # last.exc

\* the endpoints that ask SessionManager.get_session for the chatbot
GetSessionCallers == {"send_message", "clear_session", "main_get_session_info"}

\* C26: a request that asks get_session for a session that does not exist
\* (never created, or deleted) ends in an error and leaves the session table
\* as it was: the session does not come into being
C26_GetSessionOfMissingRaises ==
  [][\A s \in SessionIds :
       (sessions[s] = <<>> /\ last'.sid = s /\ last'.op \in GetSessionCallers)
         => (sessions' = sessions /\ last'.raised # None)]_vars

\* two digits, a slash, two digits, a slash, four digits, and nothing else
ExactDate(value) ==
  /\ Len(value) = 10
  /\ \A i \in {1, 2, 4, 5, 7, 8, 9, 10} : value[i] \in Digits
  /\ value[3] = "/"
  /\ value[6] = "/"

\* C27: an answer for a date field is accepted if and only if the whole of it
\* is dd/mm/yyyy; every other answer is rejected with the format hint
C27_DateAcceptedIffExact ==
  (last.op = "return" /\ last.fn = "validate_date") =>
    last.result = IF ExactDate(last.value) THEN Valid ELSE Invalid(ERR_DATE)

\* ------------------------------------------------------------- concurrent calls
\* ChatUseCase.process_message calls on the conversation id "s1" that run
\* together on the event loop.  A call runs without interruption up to an
\* await that suspends it: get_conversation and save_conversation do not, the
\* intent classification (run_in_executor) does.  calls[c].conversation says
\* which Conversation object the call holds: "stored", the object the
\* repository holds, or "own", an object the call created, with its messages.

\* the message of call c
TextOf(c) == <<"q", Numerals[c]>>

\* the backends of a concurrent turn: a general question, answered or not
ConcurrentEnvs == {[Idle EXCEPT !.cls = Cls(<<"?">>), !.gen = g] : g \in Gens}

\* the conversation under the id before the calls: none, one the router has
\* just created, one with an exchange
StoredBefore == {<<>>, << <<>> >>, <<Messages(Exchange(MaxInFlight + 1))>>}

InitConcurrent ==
  /\ deployment = "use_case"
  /\ templates_dir = {}
  /\ users = {"s1"}
  /\ budget = [classified |-> 0, answers |-> 0]
  /\ sessions = [s \in SessionIds |-> <<>>]
  /\ \E before \in StoredBefore :
       conversations = [s \in SessionIds |-> IF s = "s1" THEN before ELSE <<>>]
  /\ form_states = [s \in SessionIds |-> <<>>]
  /\ last = [op |-> "init", sid |-> None, input |-> <<>>, reply |-> <<>>, raised |-> None,
             exc |-> None, handler |-> None, classifier_called |-> FALSE,
             validation |-> "none", completed |-> FALSE, generated |-> FALSE,
             retrieved |-> <<>>]
  /\ session_timestamps = [s \in SessionIds |-> <<>>]
  /\ clock = 0
  /\ expired_sessions = <<>>
  /\ calls = [c \in CallIds |-> NotCalled]

\* process_message from its start to the await of classify_intent: the
\* conversation is fetched, or created when the repository has none, and the
\* user message is added to it
begin_process_message(c) ==
  /\ calls[c].pc = "none"
  /\ \E env \in ConcurrentEnvs :
       LET user_msg == Message("user", TextOf(c), None, {})
       IN IF conversations["s1"] # <<>>
          THEN /\ conversations' = [conversations EXCEPT !["s1"] = <<Append(@[1], user_msg)>>]
               /\ calls' = [calls EXCEPT ![c] = [@ EXCEPT !.pc = "classify_intent",
                                                          !.conversation = "stored",
                                                          !.env = env]]
          ELSE /\ calls' = [calls EXCEPT ![c] = [@ EXCEPT !.pc = "classify_intent",
                                                          !.conversation = "own",
                                                          !.messages = <<user_msg>>,
                                                          !.env = env]]
               /\ UNCHANGED conversations
  /\ UNCHANGED <<session_timestamps, clock, expired_sessions>>
  /\ UNCHANGED <<deployment, templates_dir, users, budget, sessions, form_states, last>>

\* process_message from the return of classify_intent to its end: the handler
\* answers, the reply is added to the conversation the call holds, and the
\* conversation is saved under the id; an exception ends the call with the
\* apology before either
finish_process_message(c) ==
  /\ calls[c].pc = "classify_intent"
  /\ LET Ended(r) ==
           [calls[c] EXCEPT !.pc = "done", !.exc = r.exc, !.reply = r.reply]
         Save(r, bot_msg) ==
           IF calls[c].conversation = "stored"
           THEN /\ conversations' =
                     [conversations EXCEPT !["s1"] = <<Append(@[1], bot_msg)>>]
                /\ calls' = [calls EXCEPT ![c] = Ended(r)]
           ELSE /\ conversations' =
                     [conversations EXCEPT !["s1"] =
                        <<Append(calls[c].messages, bot_msg)>>]
                /\ calls' =
                     [d \in CallIds |->
                        IF d = c
                        THEN [Ended(r) EXCEPT !.conversation = "stored", !.messages = <<>>]
                        ELSE IF calls[d].conversation = "stored" /\ calls[d].pc # "done"
                        THEN [calls[d] EXCEPT !.conversation = "own",
                                              !.messages = conversations["s1"][1]]
                        ELSE calls[d]]
         Finish(r) ==
           IF r.exc # None
           THEN /\ calls' = [calls EXCEPT ![c] = Ended(r)]
                /\ UNCHANGED conversations
           ELSE Save(r, Message("assistant", r.reply[1].message, r.reply[1].intent,
                                r.reply[1].metadata))
     IN Finish(UC_process_message(<< <<>> >>, TextOf(c), <<>>, calls[c].env,
                                  templates_dir))
  /\ UNCHANGED <<session_timestamps, clock, expired_sessions>>
  /\ UNCHANGED <<deployment, templates_dir, users, budget, sessions, form_states, last>>

NextConcurrent ==
  \/ \E c \in CallIds : begin_process_message(c)
  \/ \E c \in CallIds : finish_process_message(c)

SpecConcurrent == InitConcurrent /\ [][NextConcurrent]_vars

\* the exchange of call c is in the messages: its user message, and a reply
\* right after it
HasExchange(messages, c) ==
  \E i \in 1..(Len(messages) - 1) :
    /\ messages[i].role = "user"
    /\ messages[i].content = TextOf(c)
    /\ messages[i + 1].role = "assistant"

\* C28: when the concurrent calls on a conversation id have all ended with a
\* reply, the stored conversation holds every call's user message and, right
\* after each, a reply
C28_ConcurrentCallsKeepTheirExchanges ==
  (\A c \in CallIds : calls[c].pc = "done" /\ calls[c].exc = None) =>
    /\ conversations["s1"] # <<>>
    /\ \A c \in CallIds : HasExchange(conversations["s1"][1], c)

\* ------------------------------------------------------------- session expiry
\* SessionManager.__init__: session_timeout_minutes
session_timeout == 60

\* the clock counts minutes; time passes TickMinutes at a time, up to MaxMinutes
TickMinutes == 40
MaxMinutes == 120

tick ==
  /\ clock + TickMinutes <= MaxMinutes
  /\ clock' = clock + TickMinutes
  /\ UNCHANGED <<deployment, templates_dir, users, budget, sessions, conversations,
                 form_states, last, session_timestamps, expired_sessions, calls>>

\* the lists of the elements of a set, each once
Orderings(S) ==
  {order \in [1..Cardinality(S) -> S] :
     \A i, j \in 1..Cardinality(S) : order[i] = order[j] => i = j}

\* _cleanup_expired_sessions, the scan: under the lock, the ids whose
\* timestamp is older than the timeout are listed, in the order of the dict,
\* which is left open here
cleanup_scan ==
  /\ deployment = "legacy"
  /\ expired_sessions = <<>>
  /\ LET Scan(current_time) ==
           expired_sessions' \in
             Orderings({session_id \in SessionIds :
                          /\ session_timestamps[session_id] # <<>>
                          /\ current_time - session_timestamps[session_id][1]
                               > session_timeout})
     IN Scan(clock)
  /\ UNCHANGED <<deployment, templates_dir, users, budget, sessions, conversations,
                 form_states, last, session_timestamps, clock, calls>>

\* _cleanup_expired_sessions, one round of the loop over the listed ids:
\* delete_session, whose ValueError for a missing session is passed over
cleanup_delete ==
  /\ deployment = "legacy"
  /\ expired_sessions # <<>>
  /\ LET Delete(session_id) ==
           IF sessions[session_id] = <<>>
           THEN UNCHANGED <<sessions, session_timestamps>>
           ELSE /\ sessions' = [sessions EXCEPT ![session_id] = <<>>]
                /\ session_timestamps' = [session_timestamps EXCEPT ![session_id] = <<>>]
     IN Delete(Head(expired_sessions))
  /\ expired_sessions' = Tail(expired_sessions)
  /\ UNCHANGED <<deployment, templates_dir, users, budget, conversations, form_states,
                 last, clock, calls>>

InitExpiry == Init /\ deployment = "legacy"

NextExpiry ==
  \/ \E s \in users : send_message(s)
  \/ tick
  \/ cleanup_scan
  \/ cleanup_delete

SpecExpiry == InitExpiry /\ [][NextExpiry]_vars

\* C29: a session is deleted by the sweep only when, at that moment, its
\* timestamp is older than the timeout: a session whose timestamp a request
\* has refreshed since the scan stays
C29_SweepDeletesOnlyExpired ==
  [][\A s \in SessionIds :
       (sessions[s] # <<>> /\ sessions'[s] = <<>>)
         => clock - session_timestamps[s][1] > session_timeout]_vars

\* C30: whenever the form of a session is active there is a pending question:
\* the cursor is at least 0 and below the number of questions; a business turn
\* with no template loaded does not leave the form active
C30_ActiveFormHasPendingQuestion ==
  \A s \in SessionIds :
    FormOf(s).active =>
      /\ 0 <= FormOf(s).cursor
      /\ FormOf(s).cursor < Len(QuestionsOf(s))

============================================================================
